---- MODULE Spec2Model ----
(***************************************************************************)
(* Verification model of image_gen/image_generator.py (thomas2021-wec).    *)
(*                                                                         *)
(* The library is a flat collection of independent entry points.  Each     *)
(* group of entry points is modelled as its own state machine over its own *)
(* variables; a specification of one group leaves the variables of the     *)
(* other groups at their idle values.                                      *)
(*                                                                         *)
(*   SpecSweep      the parameter-sweep functions (plot_max_wec_..., ...)  *)
(*   SpecConv       plot_convergence_history                               *)
(*   SpecAlpso      parse_alpso_files                                      *)
(*   SpecSunflower  plot_100_rotor_points.sunflower_points                 *)
(*   SpecWindrose   make_windrose_plots / plot_windrose                    *)
(*   SpecOpt        plot_optimization_results                              *)
(*   SpecStats      get_statistics_38_turbs / get_statistics_case_studies  *)
(*   SpecDist       plot_distributions                                     *)
(*   SpecFarm       plot_farm                                              *)
(*   SpecTurbErr    plot_turb_power_error_baseline                         *)
(*   SpecSteps      analyze_fcalls_per_step                                *)
(*   SpecWecMethods plot_wec_methods (x0_func, xd_func)                    *)
(*   SpecTmax       the theoretical maximum AEP of the plotting functions  *)
(*                                                                         *)
(* Numbers: floating-point quantities are modelled by exact rationals      *)
(* <<numerator, denominator>>, by integers in a stated unit, by exact      *)
(* decimals in limbs, or by enclosing intervals; a numpy nan is the        *)
(* value NaN.  Where a result depends on double-precision rounding the     *)
(* rounding is tabulated next to the operator that uses it.                *)
(***************************************************************************)
EXTENDS Integers, Sequences, FiniteSets, TLC

\* ------------------------------------------------------------------------
\* Generic helpers
\* ------------------------------------------------------------------------

NaN == "nan"

Rat(n, d) == <<n, d>>

Zero == Rat(0, 1)

RatEq(a, b) == a # NaN /\ b # NaN /\ a[1] * b[2] = b[1] * a[2]

RECURSIVE SeqSum(_)
SeqSum(s) == IF s = <<>> THEN 0 ELSE Head(s) + SeqSum(Tail(s))

RECURSIVE SeqSumSq(_)
SeqSumSq(s) == IF s = <<>> THEN 0 ELSE Head(s) * Head(s) + SeqSumSq(Tail(s))

SeqRange(s) == {s[k] : k \in 1..Len(s)}

SetMax(S) == CHOOSE m \in S : \A x \in S : x <= m

SetMin(S) == CHOOSE m \in S : \A x \in S : m <= x

RECURSIVE SelectRows(_, _)
SelectRows(rows, stage) ==
    IF rows = <<>> THEN <<>>
    ELSE IF Head(rows)[1] = stage
         THEN <<Head(rows)[2]>> \o SelectRows(Tail(rows), stage)
         ELSE SelectRows(Tail(rows), stage)

\* the subsets of S with at most k elements
RECURSIVE SubsetsUpTo(_, _)
SubsetsUpTo(S, k) ==
    IF k = 0 THEN {{}}
    ELSE LET smaller == SubsetsUpTo(S, k - 1)
         IN smaller \cup {m \cup {x} : m \in smaller, x \in S}

IsPrefix(s, t) == Len(s) <= Len(t) /\ \A k \in 1..Len(s) : s[k] = t[k]

\* number of elements of s that are smaller than s[k], ties broken by index:
\* the position of s[k] in the sorted order
SortedPos(s, k) ==
    Cardinality({m \in 1..Len(s) : s[m] < s[k] \/ (s[m] = s[k] /\ m < k)}) + 1

np_sort(s) == [p \in 1..Len(s) |-> s[CHOOSE k \in 1..Len(s) : SortedPos(s, k) = p]]

\* ------------------------------------------------------------------------
\* numpy aggregates over a non-empty 1-D array of integers
\* ------------------------------------------------------------------------

np_max(x) == Rat(SetMax(SeqRange(x)), 1)

np_min(x) == Rat(SetMin(SeqRange(x)), 1)

np_average(x) == Rat(SeqSum(x), Len(x))

np_median(x) ==
    LET s == np_sort(x)
        n == Len(x)
    IN IF n % 2 = 1 THEN Rat(s[(n + 1) \div 2], 1)
       ELSE Rat(s[n \div 2] + s[n \div 2 + 1], 2)

\* np.std is the population standard deviation; it is represented by its
\* square, the variance (n*sum(x^2) - sum(x)^2) / n^2
np_std(x) == Rat(Len(x) * SeqSumSq(x) - SeqSum(x) * SeqSum(x), Len(x) * Len(x))

\* ========================================================================
\* Variables
\* ========================================================================

VARIABLES
    \* --- parameter-sweep functions (section "WEC-parameter sweep") ---------
    sw_fn,          \* which of the five sweep functions is running
    sw_nturbs,      \* its nturbs argument
    sw_missing,     \* result files absent from the results directory
    sw_profile,     \* which contents the present result files hold
    sw_pc,          \* position in the function body
    sw_err,         \* the exception that left the function, if any
    sw_i, sw_j,     \* loop indices (1-based here, 0-based in the source)
    orig_aep,       \* base_data[0, 5]
    max_aepi, min_aepi, med_aepi, mean_aepi, std_aepi,
    sw_visited,     \* (i, j) cells whose loop body has run, in order
    \* --- plot_convergence_history ----------------------------------------
    cv_args,        \* [wakemodel, nturbs, ndirs] of the call
    cv_model,       \* the module-level name `model`: bound, unbound, or not yet read
    cv_pc,          \* position in the function body
    cv_err,         \* the exception that left the function, if any
    cv_locals,      \* date, aept, psscale, pswscale and the set of those bound
    cv_opened,      \* input files opened so far
    cv_input,       \* data lines of the SNOPT file read so far
    rownum, run,    \* loop counters of the current pass
    aepinit, aepinitdata, aepfinaldata, fcallsdata,
    fcalls,         \* the current call-count series of an ALPSO pass
    cv_written,     \* names of the summary files written
    cv_last,        \* the np.savetxt call made by the latest step: [name, table, ulps]
    aepinitdata_ulps, \* per run, how far aepinitdata[run] lies from the whole number
                    \* held for it, in units in the last place of a double
    cv_drawn,       \* the plot and scatter calls made by the latest step
    \* --- parse_alpso_files ------------------------------------------------
    al_text,        \* contents of the log file, as a sequence of symbols
    al_pc,          \* position in the function body
    al_err,         \* the exception that left the function, if any
    al_fcalls,      \* returned function-call tokens
    al_obj,         \* returned objective tokens
    \* --- plot_100_rotor_points / sunflower_points -------------------------
    sf_n,           \* npoints, the n of sunflower_points
    sf_pc,          \* position in the function body
    sf_b,           \* b, the number of boundary points
    sf_points,      \* per index k: r (as its square) and theta (in turns of 2*pi/phi^2)
    \* --- make_windrose_plots / plot_windrose ------------------------------
    wr_dirs,        \* the dirs argument
    wr_pc,          \* position in the function body
    wr_err,         \* the exception that left the function, if any
    wr_plot_data,   \* the loaded table: rows of <<direction, speed, frequency>>
    wr_calls,       \* the plot_windrose calls made so far
    \* --- plot_optimization_results -----------------------------------------
    po_args,        \* [model, nturbs, ps, ps_wec] of the call
    po_pc,          \* position in the function body
    po_err,         \* the exception that left the function, if any
    po_bound,       \* the locals bound by the loading chain
    po_ps_wec,      \* the local ps_wec, which the chain may overwrite
    po_data,        \* the loaded tables, by algorithm
    po_ctfcalls,    \* per algorithm: summed calls per run index
    po_wake_loss,   \* per algorithm: the <<run index, final AEP>> pairs of the sample
    \* --- get_statistics_38_turbs and get_statistics_case_studies -----------
    st_call,        \* <<function, turbs, dirs>> of the call
    st_pc,          \* position in the function body
    st_err,         \* the exception that left the function, if any
    st_data,        \* the loaded tables: snopt_mstart, snopt_relax, ps_mstart
    st_out,         \* the statistics the function prints
    \* --- plot_distributions ------------------------------------------------
    pd_args,        \* <<from_convergence_history, makelatextable>> of the call
    pd_pc,          \* position in the function body
    pd_err,         \* the exception that left the function, if any
    pd_iter,        \* the number of finished iterations of the case-study loops
    pd_pvalues,     \* sw_p and psw_p of the last case study, in units of 1e-4
    pd_df,          \* the LaTeX table of the last case study: row names and the p column
    pd_impdata,     \* impdata: <<case study, sample>> per appended list
    pd_labels,      \* labels
    pd_plot,        \* the combined box plot: boxes, vertical lines and group labels
    onepcaept,      \* np.zeros(5), filled case by case
    pd_case,        \* case, the index of the next entry of onepcaept
    \* --- plot_farm ---------------------------------------------------------
    pf_args,        \* [save_figs, show_figs, layout, turb_nums, turbs] of the call
    pf_pc,          \* position in the function body
    pf_err,         \* the exception that left the function, if any
    pf_read,        \* the layout files read by np.loadtxt
    pf_fig,         \* the figure: whether it exists and the artists drawn on it
    pf_output,      \* the savefig and show calls made
    \* --- plot_turb_power_error_baseline ------------------------------------
    te_args,        \* <<save_figs, show_figs>> of the call
    te_pc,          \* position in the function body
    te_err,         \* the exception that left the function, if any
    te_nTurbines,   \* nTurbines, the rows of bp_turb_power_baseline.txt
    te_i,           \* the number of columns of sowfa_turb_powers filled so far
    te_printed,     \* whether the diagnostic print has written its line
    te_fig,         \* the heatmap calls made: heatmap, savefig, show
    \* --- analyze_fcalls_per_step -------------------------------------------
    fs_pc,          \* position in the function body
    fs_err,         \* the exception that left the function, if any
    fs_data,        \* snopt_data and wec_data: one table per case study
    fs_c,           \* the case index of the outer loop
    fs_i,           \* the run index of the inner loop
    sdata,          \* per case and run: the plain-SNOPT percentages
    wdata,          \* per case and run: the SNOPT+WEC percentages
    fs_frames,      \* the data frames after dropna, their means, and the figures written
    \* --- plot_wec_methods --------------------------------------------------
    wm_args,        \* <<save_figs, show_figs>> of the call
    wm_in,          \* the inputs of x0_func and xd_func: I, ct (thousandths) and d (metres)
    wm_pc,          \* position in the function body
    wm_x0,          \* x0, an enclosing interval in thousandths of a metre
    wm_xd,          \* xd, an enclosing interval in thousandths of a metre
    wm_output,      \* the savefig and show calls made
    \* --- the theoretical maximum AEP a plotting function resolves ----------
    tm_call,        \* <<function, wakemodel, nturbs, ndirs>>: the function and the case study it plots
    tm_pc,          \* position: before the constant is bound, after, or no constant bound
    tm_aept,        \* the quantity the function binds (aept, tmax_aep, max_possible_aep)
    tm_kwh          \* the same quantity expressed in kWh

sweepVars == <<sw_fn, sw_nturbs, sw_missing, sw_profile, sw_pc, sw_err, sw_i, sw_j,
               orig_aep, max_aepi, min_aepi, med_aepi, mean_aepi, std_aepi, sw_visited>>

convVars == <<cv_args, cv_model, cv_pc, cv_err, cv_locals, cv_opened, cv_input, rownum,
              run, aepinit, aepinitdata, aepfinaldata, fcallsdata, fcalls, cv_written,
              cv_last, aepinitdata_ulps, cv_drawn>>

alpsoVars == <<al_text, al_pc, al_err, al_fcalls, al_obj>>

sunflowerVars == <<sf_n, sf_pc, sf_b, sf_points>>

windroseVars == <<wr_dirs, wr_pc, wr_err, wr_plot_data, wr_calls>>

optVars == <<po_args, po_pc, po_err, po_bound, po_ps_wec, po_data, po_ctfcalls,
             po_wake_loss>>

statsVars == <<st_call, st_pc, st_err, st_data, st_out>>

distVars == <<pd_args, pd_pc, pd_err, pd_iter, pd_pvalues, pd_df, pd_impdata, pd_labels,
              pd_plot, onepcaept, pd_case>>

farmVars == <<pf_args, pf_pc, pf_err, pf_read, pf_fig, pf_output>>

turbErrVars == <<te_args, te_pc, te_err, te_nTurbines, te_i, te_printed, te_fig>>

stepsVars == <<fs_pc, fs_err, fs_data, fs_c, fs_i, sdata, wdata, fs_frames>>

wecMethodsVars == <<wm_args, wm_in, wm_pc, wm_x0, wm_xd, wm_output>>

tmaxVars == <<tm_call, tm_pc, tm_aept, tm_kwh>>

vars == <<sweepVars, convVars, alpsoVars, sunflowerVars, windroseVars, optVars,
          statsVars, distVars, farmVars, turbErrVars, stepsVars, wecMethodsVars,
          tmaxVars>>

NoError == [type |-> "none", at |-> "none"]

Raised(type, at) == [type |-> type, at |-> at]

SweepIdle ==
    /\ sw_fn = "none" /\ sw_nturbs = 0 /\ sw_missing = {} /\ sw_profile = 0
    /\ sw_pc = "idle" /\ sw_err = NoError /\ sw_i = 0 /\ sw_j = 0 /\ orig_aep = 0
    /\ max_aepi = <<>> /\ min_aepi = <<>> /\ med_aepi = <<>> /\ mean_aepi = <<>>
    /\ std_aepi = <<>> /\ sw_visited = <<>>

NoLocals ==
    [bound |-> {}, date |-> 0, aept |-> "", psscale |-> 0, pswscale |-> 0, raises |-> FALSE]

NoSave == [name |-> "none", table |-> <<>>, ulps |-> <<>>]

NoDraw == [pass |-> "none", curve |-> <<>>, marker |-> <<>>]

ConvIdle ==
    /\ cv_args = <<>> /\ cv_model = "unbound" /\ cv_pc = "idle" /\ cv_err = NoError
    /\ cv_locals = NoLocals /\ cv_opened = {} /\ cv_input = <<>> /\ rownum = 0 /\ run = 0
    /\ aepinit = <<>> /\ aepinitdata = <<>> /\ aepfinaldata = <<>> /\ fcallsdata = <<>>
    /\ fcalls = <<>> /\ cv_written = {} /\ cv_last = NoSave
    /\ aepinitdata_ulps = <<>> /\ cv_drawn = NoDraw

AlpsoIdle ==
    /\ al_text = <<>> /\ al_pc = "idle" /\ al_err = NoError
    /\ al_fcalls = <<>> /\ al_obj = <<>>

SunflowerIdle == sf_n = 0 /\ sf_pc = "idle" /\ sf_b = 0 /\ sf_points = <<>>

WindroseIdle ==
    /\ wr_dirs = 0 /\ wr_pc = "idle" /\ wr_err = NoError
    /\ wr_plot_data = <<>> /\ wr_calls = <<>>

OptIdle ==
    /\ po_args = <<>> /\ po_pc = "idle" /\ po_err = NoError /\ po_bound = {}
    /\ po_ps_wec = FALSE /\ po_data = <<>> /\ po_ctfcalls = <<>> /\ po_wake_loss = <<>>

StatsIdle ==
    /\ st_call = <<>> /\ st_pc = "idle" /\ st_err = NoError /\ st_data = <<>> /\ st_out = <<>>

DistIdle ==
    /\ pd_args = <<>> /\ pd_pc = "idle" /\ pd_err = NoError /\ pd_iter = 0 /\ pd_pvalues = <<>>
    /\ pd_df = <<>> /\ pd_impdata = <<>> /\ pd_labels = <<>> /\ pd_plot = <<>>
    /\ onepcaept = <<>> /\ pd_case = 0

FarmIdle ==
    /\ pf_args = <<>> /\ pf_pc = "idle" /\ pf_err = NoError /\ pf_read = {}
    /\ pf_fig = <<>> /\ pf_output = {}

TurbErrIdle ==
    /\ te_args = <<>> /\ te_pc = "idle" /\ te_err = NoError /\ te_nTurbines = 0 /\ te_i = 0
    /\ te_printed = FALSE /\ te_fig = {}

StepsIdle ==
    /\ fs_pc = "idle" /\ fs_err = NoError /\ fs_data = <<>> /\ fs_c = 0 /\ fs_i = 0
    /\ sdata = <<>> /\ wdata = <<>> /\ fs_frames = <<>>

WecMethodsIdle ==
    /\ wm_args = <<>> /\ wm_in = <<>> /\ wm_pc = "idle" /\ wm_x0 = <<>> /\ wm_xd = <<>>
    /\ wm_output = {}

TmaxIdle ==
    /\ tm_call = <<>> /\ tm_pc = "idle" /\ tm_aept = <<>> /\ tm_kwh = <<>>

\* the variables each group leaves alone, and their idle values
nonSweepVars == <<convVars, alpsoVars, sunflowerVars, windroseVars, optVars, statsVars,
                  distVars, farmVars, turbErrVars, stepsVars, wecMethodsVars, tmaxVars>>

nonConvVars == <<sweepVars, alpsoVars, sunflowerVars, windroseVars, optVars, statsVars,
                 distVars, farmVars, turbErrVars, stepsVars, wecMethodsVars, tmaxVars>>

nonAlpsoVars == <<sweepVars, convVars, sunflowerVars, windroseVars, optVars, statsVars,
                  distVars, farmVars, turbErrVars, stepsVars, wecMethodsVars, tmaxVars>>

nonSunflowerVars == <<sweepVars, convVars, alpsoVars, windroseVars, optVars, statsVars,
                      distVars, farmVars, turbErrVars, stepsVars, wecMethodsVars,
                      tmaxVars>>

nonWindroseVars == <<sweepVars, convVars, alpsoVars, sunflowerVars, optVars, statsVars,
                     distVars, farmVars, turbErrVars, stepsVars, wecMethodsVars,
                     tmaxVars>>

nonOptVars == <<sweepVars, convVars, alpsoVars, sunflowerVars, windroseVars, statsVars,
                distVars, farmVars, turbErrVars, stepsVars, wecMethodsVars, tmaxVars>>

nonStatsVars == <<sweepVars, convVars, alpsoVars, sunflowerVars, windroseVars, optVars,
                  distVars, farmVars, turbErrVars, stepsVars, wecMethodsVars, tmaxVars>>

nonDistVars == <<sweepVars, convVars, alpsoVars, sunflowerVars, windroseVars, optVars,
                 statsVars, farmVars, turbErrVars, stepsVars, wecMethodsVars, tmaxVars>>

nonFarmVars == <<sweepVars, convVars, alpsoVars, sunflowerVars, windroseVars, optVars,
                 statsVars, distVars, turbErrVars, stepsVars, wecMethodsVars, tmaxVars>>

nonTurbErrVars == <<sweepVars, convVars, alpsoVars, sunflowerVars, windroseVars, optVars,
                    statsVars, distVars, farmVars, stepsVars, wecMethodsVars, tmaxVars>>

nonStepsVars == <<sweepVars, convVars, alpsoVars, sunflowerVars, windroseVars, optVars,
                  statsVars, distVars, farmVars, turbErrVars, wecMethodsVars, tmaxVars>>

nonWecMethodsVars == <<sweepVars, convVars, alpsoVars, sunflowerVars, windroseVars,
                       optVars, statsVars, distVars, farmVars, turbErrVars, stepsVars,
                       tmaxVars>>

nonTmaxVars == <<sweepVars, convVars, alpsoVars, sunflowerVars, windroseVars, optVars,
                 statsVars, distVars, farmVars, turbErrVars, stepsVars, wecMethodsVars>>

NonSweepIdle == ConvIdle /\ AlpsoIdle /\ SunflowerIdle /\ WindroseIdle /\ OptIdle
    /\ StatsIdle /\ DistIdle /\ FarmIdle /\ TurbErrIdle /\ StepsIdle /\ WecMethodsIdle
    /\ TmaxIdle

NonConvIdle == SweepIdle /\ AlpsoIdle /\ SunflowerIdle /\ WindroseIdle /\ OptIdle
    /\ StatsIdle /\ DistIdle /\ FarmIdle /\ TurbErrIdle /\ StepsIdle /\ WecMethodsIdle
    /\ TmaxIdle

NonAlpsoIdle == SweepIdle /\ ConvIdle /\ SunflowerIdle /\ WindroseIdle /\ OptIdle
    /\ StatsIdle /\ DistIdle /\ FarmIdle /\ TurbErrIdle /\ StepsIdle /\ WecMethodsIdle
    /\ TmaxIdle

NonSunflowerIdle == SweepIdle /\ ConvIdle /\ AlpsoIdle /\ WindroseIdle /\ OptIdle
    /\ StatsIdle /\ DistIdle /\ FarmIdle /\ TurbErrIdle /\ StepsIdle /\ WecMethodsIdle
    /\ TmaxIdle

NonWindroseIdle == SweepIdle /\ ConvIdle /\ AlpsoIdle /\ SunflowerIdle /\ OptIdle
    /\ StatsIdle /\ DistIdle /\ FarmIdle /\ TurbErrIdle /\ StepsIdle /\ WecMethodsIdle
    /\ TmaxIdle

NonOptIdle == SweepIdle /\ ConvIdle /\ AlpsoIdle /\ SunflowerIdle /\ WindroseIdle
    /\ StatsIdle /\ DistIdle /\ FarmIdle /\ TurbErrIdle /\ StepsIdle /\ WecMethodsIdle
    /\ TmaxIdle

NonStatsIdle == SweepIdle /\ ConvIdle /\ AlpsoIdle /\ SunflowerIdle /\ WindroseIdle
    /\ OptIdle /\ DistIdle /\ FarmIdle /\ TurbErrIdle /\ StepsIdle /\ WecMethodsIdle
    /\ TmaxIdle

NonDistIdle == SweepIdle /\ ConvIdle /\ AlpsoIdle /\ SunflowerIdle /\ WindroseIdle
    /\ OptIdle /\ StatsIdle /\ FarmIdle /\ TurbErrIdle /\ StepsIdle /\ WecMethodsIdle
    /\ TmaxIdle

NonFarmIdle == SweepIdle /\ ConvIdle /\ AlpsoIdle /\ SunflowerIdle /\ WindroseIdle
    /\ OptIdle /\ StatsIdle /\ DistIdle /\ TurbErrIdle /\ StepsIdle /\ WecMethodsIdle
    /\ TmaxIdle

NonTurbErrIdle == SweepIdle /\ ConvIdle /\ AlpsoIdle /\ SunflowerIdle /\ WindroseIdle
    /\ OptIdle /\ StatsIdle /\ DistIdle /\ FarmIdle /\ StepsIdle /\ WecMethodsIdle
    /\ TmaxIdle

NonStepsIdle == SweepIdle /\ ConvIdle /\ AlpsoIdle /\ SunflowerIdle /\ WindroseIdle
    /\ OptIdle /\ StatsIdle /\ DistIdle /\ FarmIdle /\ TurbErrIdle /\ WecMethodsIdle
    /\ TmaxIdle

NonWecMethodsIdle == SweepIdle /\ ConvIdle /\ AlpsoIdle /\ SunflowerIdle /\ WindroseIdle
    /\ OptIdle /\ StatsIdle /\ DistIdle /\ FarmIdle /\ TurbErrIdle /\ StepsIdle
    /\ TmaxIdle

NonTmaxIdle == SweepIdle /\ ConvIdle /\ AlpsoIdle /\ SunflowerIdle /\ WindroseIdle
    /\ OptIdle /\ StatsIdle /\ DistIdle /\ FarmIdle /\ TurbErrIdle /\ StepsIdle
    /\ WecMethodsIdle

\* ========================================================================
\* Parameter-sweep functions
\*   plot_max_wec_const_nstep_results, plot_maxwec3_nstep_results,
\*   plot_wec_nstep_results, plot_wec_step_results, plot_max_wec_results
\* ========================================================================

\* at most this many result files are absent
MaxMissing == 1

\* number of alternative contents of the results directory
NProfiles == 2

SweepFunctions ==
    {"plot_max_wec_const_nstep_results", "plot_maxwec3_nstep_results",
     "plot_wec_nstep_results", "plot_wec_step_results", "plot_max_wec_results"}

\* turbine counts passed by a caller: the supported one and another one
SweepTurbineCounts == {38, 16}

Range2to10 == <<2, 3, 4, 5, 6, 7, 8, 9, 10>>

\* wec_step_ranges / max_wec_ranges: the swept values of WEC-A, WEC-D, WEC-H.
\* plot_wec_step_results sweeps fractional values; they are held in
\* hundredths (0.1 is 10, 4.0 is 400).
wec_step_ranges(fn) ==
    CASE fn = "plot_max_wec_const_nstep_results" ->
            << <<1, 2, 3, 4, 5, 6, 7, 8, 9, 10, 10, 15, 20, 25, 30, 35, 40>>,
               Range2to10, Range2to10 >>
      [] fn = "plot_maxwec3_nstep_results" -> <<Range2to10, Range2to10, Range2to10>>
      [] fn = "plot_wec_nstep_results" -> <<Range2to10, Range2to10, Range2to10>>
      [] fn = "plot_wec_step_results" ->
            << <<100, 200, 300, 400, 500, 600, 700, 800, 900, 1000>>,
               <<10, 20, 30, 40, 50, 60, 70, 80, 90, 100, 125, 150, 175, 200,
                 225, 250, 275, 300, 325, 350, 375, 400>>,
               <<80, 90, 100, 125, 150, 175, 200, 225, 250, 275, 300>> >>
      [] fn = "plot_max_wec_results" ->
            << <<10, 20, 30, 40, 50, 60, 70, 80>>, Range2to10, Range2to10 >>

\* np.size(approaches)
NApproaches == 3

\* the three charts plot wake loss against the theoretical maximum in the
\* first two functions and improvement over orig_aep in the other three
SweepMetric(fn) ==
    IF fn \in {"plot_max_wec_const_nstep_results", "plot_maxwec3_nstep_results"}
    THEN "wake_loss" ELSE "improvement"

\* data_file: the path is the approach's directory prefix followed by the
\* formatted swept value; two cells with the same approach and the same
\* value name the same file
data_file(fn, i, wec_val) == <<i, wec_val>>

\* the file of the "load baseline data" statement: the WEC-A prefix with a
\* fixed value
base_data_file(fn) ==
    CASE fn = "plot_max_wec_const_nstep_results" -> <<1, 5>>
      [] fn = "plot_wec_step_results" -> <<1, 1000>>
      [] OTHER -> <<1, 10>>

SweepCells(fn) ==
    {<<i, j>> : i \in 1..NApproaches, j \in 1..22} \cap
    {c \in (1..NApproaches) \X (1..22) : c[2] <= Len(wec_step_ranges(fn)[c[1]])}

SweepFiles(fn) == {data_file(fn, c[1], wec_step_ranges(fn)[c[1]][c[2]]) : c \in SweepCells(fn)}

RECURSIVE CellsFrom(_, _, _)
CellsFrom(fn, i, j) ==
    IF i > NApproaches THEN <<>>
    ELSE IF j > Len(wec_step_ranges(fn)[i]) THEN CellsFrom(fn, i + 1, 1)
    ELSE <<(<<i, j>>)>> \o CellsFrom(fn, i, j + 1)

\* the cells in the order of the two nested loops
SweepOrder(fn) == CellsFrom(fn, 1, 1)

\* theoretical maximum AEP of the 38-turbine case, 189.77548752E6 kWh,
\* taken as 100 units
max_possible_aep == 100

\* Result tables: rows of <<ti_opt, run_end_aep>> (columns 3 and 7), AEP in
\* the unit of max_possible_aep; orig is column 5 of the first row.  Every
\* table holds at least one row of the final stage (ti_opt = 5).
DataSets ==
    << [orig |-> 50, rows |-> << <<5, 90>> >>],
       [orig |-> 50, rows |-> << <<4, 70>>, <<5, 80>>, <<5, 90>> >>],
       [orig |-> 25, rows |-> << <<5, 85>>, <<5, 95>>, <<0, 60>>, <<5, 75>> >>] >>

\* np.loadtxt of a present file
np_loadtxt(file, profile) == DataSets[((file[1] + file[2] + profile) % Len(DataSets)) + 1]

\* run_wake_loss = 100*(1 - run_end_aep/max_possible_aep), or
\* run_improvement = 100*(run_end_aep/orig_aep - 1); orig_aep divides 100
run_metric(fn, run_end_aep, orig) ==
    IF SweepMetric(fn) = "wake_loss"
    THEN [k \in 1..Len(run_end_aep) |-> 100 - (100 * run_end_aep[k]) \div max_possible_aep]
    ELSE [k \in 1..Len(run_end_aep) |-> (100 \div orig) * run_end_aep[k] - 100]

ZeroArrays(fn) == [i \in 1..NApproaches |-> [j \in 1..Len(wec_step_ranges(fn)[i]) |-> Zero]]

SweepInit ==
    /\ sw_fn \in SweepFunctions
    /\ sw_nturbs \in SweepTurbineCounts
    /\ sw_missing \in SubsetsUpTo(SweepFiles(sw_fn), MaxMissing)
    /\ sw_profile \in 0..(NProfiles - 1)
    /\ sw_pc = "setup"
    /\ sw_err = NoError
    /\ sw_i = 0 /\ sw_j = 0 /\ orig_aep = 0
    /\ max_aepi = <<>> /\ min_aepi = <<>> /\ med_aepi = <<>> /\ mean_aepi = <<>>
    /\ std_aepi = <<>> /\ sw_visited = <<>>
    /\ NonSweepIdle

\* if nturbs == 38: allocate the five arrays; else: a ValueError is
\* constructed and dropped, and nothing is bound
SweepSetup ==
    /\ sw_pc = "setup"
    /\ IF sw_nturbs = 38
       THEN /\ max_aepi' = ZeroArrays(sw_fn) /\ min_aepi' = ZeroArrays(sw_fn)
            /\ med_aepi' = ZeroArrays(sw_fn) /\ mean_aepi' = ZeroArrays(sw_fn)
            /\ std_aepi' = ZeroArrays(sw_fn)
       ELSE UNCHANGED <<max_aepi, min_aepi, med_aepi, mean_aepi, std_aepi>>
    /\ sw_pc' = "load_baseline"
    /\ UNCHANGED nonSweepVars
    /\ UNCHANGED <<sw_fn, sw_nturbs, sw_missing, sw_profile, sw_err, sw_i, sw_j,
                   orig_aep, sw_visited>>

\* a baseline load whose names are bound for every turbine count
SweepLoadBaseline_AlwaysBound ==
    /\ sw_pc = "load_baseline"
    /\ IF base_data_file(sw_fn) \in sw_missing
       THEN /\ sw_pc' = "raised" /\ sw_err' = Raised("OSError", "load_baseline")
            /\ UNCHANGED <<orig_aep, sw_i, sw_j>>
       ELSE /\ orig_aep' = np_loadtxt(base_data_file(sw_fn), sw_profile).orig
            /\ sw_pc' = "sweep" /\ sw_i' = 1 /\ sw_j' = 1
            /\ UNCHANGED sw_err
    /\ UNCHANGED nonSweepVars
    /\ UNCHANGED <<sw_fn, sw_nturbs, sw_missing, sw_profile, max_aepi, min_aepi,
                   med_aepi, mean_aepi, std_aepi, sw_visited>>

\* base_data = np.loadtxt(rdir + wadirp + ...); orig_aep = base_data[0, 5]
SweepLoadBaseline ==
    /\ sw_pc = "load_baseline"
    /\ IF sw_nturbs # 38
       THEN /\ sw_pc' = "raised" /\ sw_err' = Raised("UnboundLocalError", "load_baseline")
            /\ UNCHANGED <<orig_aep, sw_i, sw_j>>
       ELSE IF base_data_file(sw_fn) \in sw_missing
       THEN /\ sw_pc' = "raised" /\ sw_err' = Raised("OSError", "load_baseline")
            /\ UNCHANGED <<orig_aep, sw_i, sw_j>>
       ELSE /\ orig_aep' = np_loadtxt(base_data_file(sw_fn), sw_profile).orig
            /\ sw_pc' = "sweep" /\ sw_i' = 1 /\ sw_j' = 1
            /\ UNCHANGED sw_err
    /\ UNCHANGED nonSweepVars
    /\ UNCHANGED <<sw_fn, sw_nturbs, sw_missing, sw_profile, max_aepi, min_aepi,
                   med_aepi, mean_aepi, std_aepi, sw_visited>>

\* the loop headers: the next (i, j), or the end of both loops
SweepAdvance ==
    IF sw_j < Len(wec_step_ranges(sw_fn)[sw_i])
    THEN sw_i' = sw_i /\ sw_j' = sw_j + 1 /\ sw_pc' = "sweep"
    ELSE IF sw_i < NApproaches
    THEN sw_i' = sw_i + 1 /\ sw_j' = 1 /\ sw_pc' = "sweep"
    ELSE sw_i' = sw_i /\ sw_j' = sw_j /\ sw_pc' = "baseline_cmp"

CurrentFile == data_file(sw_fn, sw_i, wec_step_ranges(sw_fn)[sw_i][sw_j])

\* an except clause that lets the load failure leave the function
SweepCellMissing_Reraises ==
    /\ sw_pc = "sweep"
    /\ CurrentFile \in sw_missing
    /\ sw_pc' = "raised" /\ sw_err' = Raised("OSError", "sweep")
    /\ UNCHANGED nonSweepVars
    /\ UNCHANGED <<sw_fn, sw_nturbs, sw_missing, sw_profile, sw_i, sw_j, orig_aep,
                   max_aepi, min_aepi, med_aepi, mean_aepi, std_aepi, sw_visited>>

\* one iteration whose np.loadtxt raises: the except branch and continue
SweepCellMissing ==
    /\ sw_pc = "sweep"
    /\ CurrentFile \in sw_missing
    /\ max_aepi' = [max_aepi EXCEPT ![sw_i][sw_j] = NaN]
    /\ min_aepi' = [min_aepi EXCEPT ![sw_i][sw_j] = NaN]
    /\ med_aepi' = [med_aepi EXCEPT ![sw_i][sw_j] = NaN]
    /\ std_aepi' = [std_aepi EXCEPT ![sw_i][sw_j] = NaN]
    /\ UNCHANGED mean_aepi
    /\ sw_visited' = Append(sw_visited, <<sw_i, sw_j>>)
    /\ SweepAdvance
    /\ UNCHANGED nonSweepVars
    /\ UNCHANGED <<sw_fn, sw_nturbs, sw_missing, sw_profile, sw_err, orig_aep>>

\* one iteration whose file loads: the five aggregates of the final-stage rows
SweepCellLoaded ==
    /\ sw_pc = "sweep"
    /\ CurrentFile \notin sw_missing
    /\ LET data_set == np_loadtxt(CurrentFile, sw_profile)
           run_end_aep == SelectRows(data_set.rows, 5)
           run_values == run_metric(sw_fn, run_end_aep, orig_aep)
       IN /\ max_aepi' = [max_aepi EXCEPT ![sw_i][sw_j] = np_max(run_values)]
          /\ min_aepi' = [min_aepi EXCEPT ![sw_i][sw_j] = np_min(run_values)]
          /\ mean_aepi' = [mean_aepi EXCEPT ![sw_i][sw_j] = np_average(run_values)]
          /\ med_aepi' = [med_aepi EXCEPT ![sw_i][sw_j] = np_median(run_values)]
          /\ std_aepi' = [std_aepi EXCEPT ![sw_i][sw_j] = np_std(run_values)]
    /\ sw_visited' = Append(sw_visited, <<sw_i, sw_j>>)
    /\ SweepAdvance
    /\ UNCHANGED nonSweepVars
    /\ UNCHANGED <<sw_fn, sw_nturbs, sw_missing, sw_profile, sw_err, orig_aep>>

\* the baseline comparison and the three charts; the unguarded loads of the
\* SNOPT and ALPSO baseline tables succeed or raise
SweepBaselineComparison ==
    /\ sw_pc = "baseline_cmp"
    /\ \E loaded \in BOOLEAN :
          IF loaded THEN sw_pc' = "plotted" /\ UNCHANGED sw_err
          ELSE sw_pc' = "raised" /\ sw_err' = Raised("OSError", "baseline_cmp")
    /\ UNCHANGED nonSweepVars
    /\ UNCHANGED <<sw_fn, sw_nturbs, sw_missing, sw_profile, sw_i, sw_j, orig_aep,
                   max_aepi, min_aepi, med_aepi, mean_aepi, std_aepi, sw_visited>>

SweepNext ==
    \/ SweepSetup
    \/ SweepLoadBaseline
    \/ SweepCellMissing
    \/ SweepCellLoaded
    \/ SweepBaselineComparison

SpecSweep == SweepInit /\ [][SweepNext]_vars

\* ------------------------------------------------------------------------
\* Claims about the parameter-sweep functions
\* ------------------------------------------------------------------------

\* both loops have ended
SweepEnded ==
    \/ sw_pc \in {"baseline_cmp", "plotted"}
    \/ (sw_pc = "raised" /\ sw_err.at = "baseline_cmp")

CellFile(c) == data_file(sw_fn, c[1], wec_step_ranges(sw_fn)[c[1]][c[2]])

CellRun(c) ==
    run_metric(sw_fn, SelectRows(np_loadtxt(CellFile(c), sw_profile).rows, 5), orig_aep)

\* C1: after the sweep, a cell whose result file could not be loaded holds
\* not-a-number in the max, min, mean and std arrays, and a cell whose file
\* loaded holds the aggregates of its data.
C1_MissingCellNaNInMaxMinMeanStd ==
    SweepEnded =>
        \A c \in SweepCells(sw_fn) :
            IF CellFile(c) \in sw_missing
            THEN /\ max_aepi[c[1]][c[2]] = NaN
                 /\ min_aepi[c[1]][c[2]] = NaN
                 /\ mean_aepi[c[1]][c[2]] = NaN
                 /\ std_aepi[c[1]][c[2]] = NaN
            ELSE /\ max_aepi[c[1]][c[2]] = np_max(CellRun(c))
                 /\ min_aepi[c[1]][c[2]] = np_min(CellRun(c))
                 /\ mean_aepi[c[1]][c[2]] = np_average(CellRun(c))
                 /\ std_aepi[c[1]][c[2]] = np_std(CellRun(c))

GuardedSweepFunctions ==
    {"plot_max_wec_results", "plot_maxwec3_nstep_results", "plot_wec_nstep_results",
     "plot_wec_step_results"}

\* C18: for a turbine count other than 38, each of plot_max_wec_results,
\* plot_maxwec3_nstep_results, plot_wec_nstep_results and
\* plot_wec_step_results passes its guard without an error and then fails at
\* the baseline-file load, the first use of an unbound name, before any
\* sweep cell is processed and before any chart is written.
C18_OtherCountFailsAtBaselineLoad ==
    (sw_fn \in GuardedSweepFunctions /\ sw_nturbs # 38) =>
        /\ sw_pc \in {"setup", "load_baseline", "raised"}
        /\ sw_pc \in {"setup", "load_baseline"} => sw_err = NoError
        /\ sw_pc = "raised" => sw_err = Raised("UnboundLocalError", "load_baseline")
        /\ sw_visited = <<>>

C18_Witness ==
    /\ sw_fn = "plot_wec_step_results"
    /\ sw_nturbs = 16
    /\ sw_pc = "raised"
    /\ sw_err = Raised("UnboundLocalError", "load_baseline")
    /\ sw_visited = <<>>

\* ========================================================================
\* plot_convergence_history
\* ========================================================================

\* runs = 200: "how many optimization runs are to be plotted"
runs == 200

\* at most this many runs (pairs of data lines) in an input file
MaxInputRuns == 2

\* the data lines an input file may hold: the values np.fromstring parses
\* from one row (an empty row parses to an empty array)
ConvLines == {<<>>, <<1>>, <<1, 2>>, <<3, 1, 2>>}

ConvWakeModels == {"BPA", "JENSEN", "FLORIS"}

ConvTurbineCounts == {9, 16, 38, 60}

ConvDirectionCounts == {12, 20, 36, 72}

\* the five case studies of the study
RecognizedCases ==
    {<<"BPA", 16, 20>>, <<"BPA", 38, 12>>, <<"BPA", 38, 36>>, <<"BPA", 60, 72>>,
     <<"JENSEN", 38, 12>>}

Unbound == "unbound"

\* the if/elif chain that binds date, aept, psscale and pswscale, or raises
\* EnvironmentError; `bound` names the locals the chain has assigned, and
\* aept is kept as the text of its expression (Wh)
ConvCaseLocals(wakemodel, nturbs, ndirs) ==
    LET none == [bound |-> {}, date |-> 0, aept |-> "", psscale |-> 0, pswscale |-> 0,
                 raises |-> FALSE]
    IN IF wakemodel = "BPA" THEN
           IF nturbs = 60 THEN
               [none EXCEPT !.bound = {"date", "aept", "psscale"}, !.date = 20200824,
                            !.aept = "6653047.52233728*60*1E3", !.psscale = -100000]
           ELSE IF nturbs = 38 THEN
               IF ndirs = 12 THEN
                   [none EXCEPT !.bound = {"date", "aept", "psscale", "pswscale"},
                                !.date = 20200821, !.aept = "4994091.77684705*38*1E3",
                                !.psscale = -100000, !.pswscale = 1]
               ELSE IF ndirs = 36 THEN
                   [none EXCEPT !.bound = {"date", "aept", "psscale"}, !.date = 20200821,
                                !.aept = "1630166.61601323*38*1E3", !.psscale = -100000]
               ELSE [none EXCEPT !.bound = {"date"}, !.date = 20200821]
           ELSE IF nturbs = 16 THEN
               [none EXCEPT !.bound = {"date", "aept", "psscale"}, !.date = 20200821,
                            !.aept = "5191363.5933961*16*1E3", !.psscale = -10000]
           ELSE none
       ELSE IF wakemodel = "JENSEN" THEN
           IF nturbs = 38 THEN
               IF ndirs = 12 THEN
                   [none EXCEPT !.bound = {"date", "aept", "psscale"}, !.date = 20201110,
                                !.aept = "5679986.827947*38*1E3", !.psscale = 100000]
               ELSE [none EXCEPT !.bound = {"date"}, !.date = 20201110, !.raises = TRUE]
           ELSE [none EXCEPT !.raises = TRUE]
       ELSE [none EXCEPT !.raises = TRUE]

\* a float array of np.zeros(runs) is held as the prefix up to its last
\* stored index; every later entry is 0.0
At(arr, idx) == IF idx + 1 <= Len(arr) THEN arr[idx + 1] ELSE 0

SetAt(arr, idx, v) ==
    [k \in 1..(IF idx + 1 > Len(arr) THEN idx + 1 ELSE Len(arr)) |->
        IF k = idx + 1 THEN v ELSE IF k <= Len(arr) THEN arr[k] ELSE 0]

\* a summary table that holds the parsed runs only
SummaryTable_ParsedRunsOnly(init, final, calls) ==
    [id \in 0..(Len(init) - 1) |-> <<id, At(init, id), At(final, id), At(calls, id)>>]

\* np.c_[np.arange(0, runs), aepinitdata, aepfinaldata, fcallsdata]
SummaryTable(init, final, calls) ==
    [id \in 0..(runs - 1) |-> <<id, At(init, id), At(final, id), At(calls, id)>>]

ConvInit ==
    /\ cv_args \in ConvWakeModels \X ConvTurbineCounts \X ConvDirectionCounts
    /\ cv_model = "unread"
    /\ cv_pc = "resolve"
    /\ cv_err = NoError
    /\ cv_locals = NoLocals /\ cv_opened = {} /\ cv_input = <<>> /\ rownum = 0 /\ run = 0
    /\ aepinit = <<>> /\ aepinitdata = <<>> /\ aepfinaldata = <<>> /\ fcallsdata = <<>>
    /\ fcalls = <<>> /\ cv_written = {} /\ cv_last = NoSave
    /\ aepinitdata_ulps = <<>> /\ cv_drawn = NoDraw
    /\ NonConvIdle

\* an exception leaves the function: its locals are gone
ConvRaiseWith(type, at, binding) ==
    /\ cv_pc' = "raised"
    /\ cv_model' = binding
    /\ cv_err' = Raised(type, at)
    /\ rownum' = 0 /\ run' = 0 /\ cv_input' = <<>>
    /\ aepinit' = <<>> /\ aepinitdata' = <<>> /\ aepfinaldata' = <<>> /\ fcallsdata' = <<>>
    /\ fcalls' = <<>> /\ aepinitdata_ulps' = <<>>
    /\ cv_last' = NoSave /\ cv_drawn' = NoDraw
    /\ UNCHANGED <<cv_args, cv_locals, cv_opened, cv_written>>

ConvRaise(type, at) == ConvRaiseWith(type, at, cv_model)

\* the case chain and the input paths, which format date into the directory
ConvResolveCase ==
    /\ cv_pc = "resolve"
    /\ LET loc == ConvCaseLocals(cv_args[1], cv_args[2], cv_args[3])
       IN IF loc.raises THEN ConvRaise("EnvironmentError", "resolve")
          ELSE IF "date" \notin loc.bound THEN ConvRaise("UnboundLocalError", "resolve")
          ELSE /\ cv_locals' = loc
               /\ cv_pc' = "open_snopt"
               /\ UNCHANGED <<cv_args, cv_model, cv_err, cv_opened, cv_input, rownum, run,
                              aepinit, aepinitdata, aepfinaldata, fcallsdata, fcalls,
                              cv_written,
                              aepinitdata_ulps>>
               /\ cv_last' = NoSave /\ cv_drawn' = NoDraw
    /\ UNCHANGED nonConvVars

\* open(...) of one input file, the scan for the longest row and the second
\* open; the pass then starts after the header line, where rownum is
\* `first`.  `reset` tells whether the three data arrays are zeroed before
\* the pass.
ConvOpen(at, file, pass, reset, first) ==
    /\ cv_pc = at
    /\ \E exists \in BOOLEAN :
          IF ~exists THEN ConvRaise("FileNotFoundError", at)
          ELSE /\ cv_opened' = cv_opened \cup {file}
               /\ cv_pc' = pass
               /\ rownum' = first /\ run' = 0 /\ cv_input' = <<>> /\ fcalls' = <<>>
               /\ IF reset
                  THEN /\ aepinitdata' = <<>> /\ aepfinaldata' = <<>> /\ fcallsdata' = <<>>
                       /\ aepinitdata_ulps' = <<>>
                  ELSE UNCHANGED <<aepinitdata, aepfinaldata, fcallsdata, aepinitdata_ulps>>
               /\ UNCHANGED <<cv_args, cv_model, cv_err, cv_locals, aepinit, cv_written>>
               /\ cv_last' = NoSave /\ cv_drawn' = NoDraw
    /\ UNCHANGED nonConvVars

ConvOpenSnopt == ConvOpen("open_snopt", "input_file_snopt", "snopt", TRUE, 0)

ConvOpenWec == ConvOpen("open_wec", "input_file_wec", "wec", FALSE, 0)

ConvOpenPswec == ConvOpen("open_pswec", "input_file_pswec", "pswec", TRUE, 1)

ConvOpenPs == ConvOpen("open_ps", "input_file_ps", "ps", TRUE, 1)

\* functioncalls = np.arange(1, s.size+1)*2; functioncalls[0] = 1
functioncalls(size) == [i \in 1..size |-> IF i = 1 THEN 1 ELSE 2 * i]

\* what the mined call count would be if it were taken from the stored
\* call-count row
snopt_fcalls_FromCallCountRow(calls_row, objective_row) == Len(calls_row) * 2

\* fcallsdata[run] = (s.size)*2, s being the series of the objective row
snopt_fcalls(calls_row, objective_row) == Len(objective_row) * 2

\* one data row of the SNOPT or SNOPT+WEC file.  Even rows are kept as s
\* only; odd rows are the objective values of a run,
\* drawn as a curve over functioncalls with a marker at s.size*2.  The
\* curves and markers are recorded by the AEP they show; the wake loss
\* 100*(1 - AEP/aept) is applied to both alike.
ConvSnoptRow(pass, storesInit) ==
    /\ cv_pc = pass
    /\ rownum < 2 * MaxInputRuns
    /\ \E data \in ConvLines :
          IF rownum % 2 = 0
          THEN /\ rownum' = rownum + 1
               /\ cv_input' = IF storesInit THEN Append(cv_input, data) ELSE cv_input
               /\ UNCHANGED <<cv_args, cv_model, cv_pc, cv_err, cv_locals, cv_opened, run,
                              aepinit, aepinitdata, aepfinaldata, fcallsdata, fcalls,
                              cv_written,
                              aepinitdata_ulps>>
               /\ cv_last' = NoSave /\ cv_drawn' = NoDraw
          ELSE IF data = <<>> THEN ConvRaise(IF storesInit THEN "KeyError" ELSE "IndexError", pass)
          ELSE IF storesInit /\ run >= runs THEN ConvRaise("IndexError", pass)
          ELSE IF "aept" \notin cv_locals.bound THEN ConvRaise("UnboundLocalError", pass)
          ELSE IF run >= runs THEN ConvRaise("IndexError", pass)
          ELSE /\ aepinit' = IF storesInit THEN SetAt(aepinit, run, data[1]) ELSE aepinit
               /\ aepinitdata' = SetAt(aepinitdata, run, data[1])
               /\ aepinitdata_ulps' = SetAt(aepinitdata_ulps, run, 0)
               /\ aepfinaldata' = SetAt(aepfinaldata, run, data[Len(data)])
               /\ fcallsdata' = SetAt(fcallsdata, run,
                                      snopt_fcalls(IF storesInit THEN cv_input[Len(cv_input)]
                                                   ELSE <<>>, data))
               /\ run' = run + 1
               /\ rownum' = rownum + 1
               /\ cv_input' = IF storesInit THEN Append(cv_input, data) ELSE cv_input
               /\ UNCHANGED <<cv_args, cv_model, cv_pc, cv_err, cv_locals, cv_opened, fcalls,
                              cv_written>>
               /\ cv_last' = NoSave
               /\ cv_drawn' = [pass |-> pass,
                               curve |-> <<functioncalls(Len(data)), data>>,
                               marker |-> <<Len(data) * 2, data[Len(data)]>>]
    /\ UNCHANGED nonConvVars

ConvSnoptLine == ConvSnoptRow("snopt", TRUE)

ConvWecLine == ConvSnoptRow("wec", FALSE)

\* f.close() at the end of a pass
ConvClose(pass, next) ==
    /\ cv_pc = pass
    /\ cv_pc' = next
    /\ UNCHANGED <<cv_args, cv_model, cv_err, cv_locals, cv_opened, cv_input, rownum, run,
                   aepinit, aepinitdata, aepfinaldata, fcallsdata, fcalls, cv_written,
                              aepinitdata_ulps>>
    /\ cv_last' = NoSave /\ cv_drawn' = NoDraw
    /\ UNCHANGED nonConvVars

ConvSnoptClose == ConvClose("snopt", "save_snopt")

\* the savetxt of the SNOPT+WEC summary is commented out: the pass ends and
\* the next pass is chosen
ConvWecClose ==
    ConvClose("wec", IF cv_args[1] = "BPA" /\ cv_args[3] = 12 THEN "open_pswec" ELSE "open_ps")

ConvPswecClose == ConvClose("pswec", "save_pswec")

ConvPsClose == ConvClose("ps", "save_ps")

\* np.savetxt("<name>_results_%smodel_..." % (model, nturbs, ndirs), ...):
\* the file name reads the global `model`, which the function never binds
ConvSave(at, name, next) ==
    /\ cv_pc = at
    /\ \E binding \in (IF cv_model = "unread" THEN {"bound", Unbound} ELSE {cv_model}) :
          IF binding = Unbound
          THEN ConvRaiseWith("NameError", at, binding)
          ELSE /\ cv_model' = binding
               /\ cv_written' = cv_written \cup {name}
               /\ cv_last' = [name |-> name,
                              table |-> SummaryTable(aepinitdata, aepfinaldata, fcallsdata),
                              ulps |-> aepinitdata_ulps]
               /\ cv_drawn' = NoDraw
               /\ cv_pc' = next
               /\ UNCHANGED <<cv_args, cv_err, cv_locals, cv_opened, cv_input, rownum,
                              run, aepinit, aepinitdata, aepfinaldata, fcallsdata, fcalls,
                              aepinitdata_ulps>>
    /\ UNCHANGED nonConvVars

ConvSaveSnopt == ConvSave("save_snopt", "snopt", "open_wec")

ConvSavePswec == ConvSave("save_pswec", "alpso_wec", "open_ps")

ConvSavePs == ConvSave("save_ps", "alpso", "finish")

\* the whole numbers x below 8 and scales for which the double (x/scale)*scale
\* is the double next below x; for every other pair met here it is x
FloatRoundTripBelow == {<<3, -10000>>, <<6, -10000>>, <<7, -100000>>, <<7, 100000>>}

\* the round trip taken as exact
scale_round_trip_Exact(x, scale) == 0

\* (aepinit[run]/scale)*scale, as its offset from x in units in the last place
scale_round_trip(x, scale) == IF <<x, scale>> \in FloatRoundTripBelow THEN -1 ELSE 0

\* one data row of the ALPSO or ALPSO+WEC file.  Odd rows (the first data
\* row is row 1) are call counts, even rows objective values in units of
\* `scale`; the series get 1 and aepinit[run]/scale prepended, and plotting
\* series of different lengths raises ValueError.  The scan
\* before the pass reads data[-1] of every call-count row.
ConvAlpsoRow(pass, scalename) ==
    /\ cv_pc = pass
    /\ rownum < 2 * MaxInputRuns + 1
    /\ \E data \in ConvLines :
          IF rownum % 2 # 0
          THEN IF data = <<>> THEN ConvRaise("IndexError", pass)
               ELSE /\ fcalls' = <<1>> \o data
                    /\ rownum' = rownum + 1
                    /\ UNCHANGED <<cv_args, cv_model, cv_pc, cv_err, cv_locals, cv_opened,
                                   cv_input, run, aepinit, aepinitdata, aepfinaldata,
                                   fcallsdata, cv_written,
                              aepinitdata_ulps>>
                    /\ cv_last' = NoSave /\ cv_drawn' = NoDraw
          ELSE IF run >= runs THEN ConvRaise("IndexError", pass)
          ELSE IF scalename \notin cv_locals.bound THEN ConvRaise("UnboundLocalError", pass)
          ELSE IF Len(fcalls) # Len(data) + 1 THEN ConvRaise("ValueError", pass)
          ELSE /\ aepinitdata' = SetAt(aepinitdata, run, At(aepinit, run))
               /\ aepinitdata_ulps' = SetAt(aepinitdata_ulps, run,
                                            scale_round_trip(At(aepinit, run),
                                                             cv_locals[scalename]))
               /\ aepfinaldata' = SetAt(aepfinaldata, run,
                                        IF data = <<>> THEN At(aepinit, run)
                                        ELSE data[Len(data)] * cv_locals[scalename])
               /\ fcallsdata' = SetAt(fcallsdata, run, fcalls[Len(fcalls)])
               /\ run' = run + 1
               /\ rownum' = rownum + 1
               /\ UNCHANGED <<cv_args, cv_model, cv_pc, cv_err, cv_locals, cv_opened,
                              cv_input, aepinit, fcalls, cv_written>>
               /\ cv_last' = NoSave
               /\ cv_drawn' = [pass |-> pass,
                               curve |-> <<fcalls, <<At(aepinit, run)>> \o
                                             [k \in 1..Len(data) |->
                                                 data[k] * cv_locals[scalename]]>>,
                               marker |-> <<fcalls[Len(fcalls)],
                                            IF data = <<>> THEN At(aepinit, run)
                                            ELSE data[Len(data)] * cv_locals[scalename]>>]
    /\ UNCHANGED nonConvVars

ConvPswecLine == ConvAlpsoRow("pswec", "pswscale")

ConvPsLine == ConvAlpsoRow("ps", "psscale")

\* annotations, axis limits, savefig and show
ConvFinish ==
    /\ cv_pc = "finish"
    /\ cv_pc' = "done"
    /\ UNCHANGED <<cv_args, cv_model, cv_err, cv_locals, cv_opened, cv_input, rownum, run,
                   aepinit, aepinitdata, aepfinaldata, fcallsdata, fcalls, cv_written,
                              aepinitdata_ulps>>
    /\ cv_last' = NoSave /\ cv_drawn' = NoDraw
    /\ UNCHANGED nonConvVars

ConvNext ==
    \/ ConvResolveCase
    \/ ConvOpenSnopt \/ ConvSnoptLine \/ ConvSnoptClose \/ ConvSaveSnopt
    \/ ConvOpenWec \/ ConvWecLine \/ ConvWecClose
    \/ ConvOpenPswec \/ ConvPswecLine \/ ConvPswecClose \/ ConvSavePswec
    \/ ConvOpenPs \/ ConvPsLine \/ ConvPsClose \/ ConvSavePs
    \/ ConvFinish

SpecConv == ConvInit /\ [][ConvNext]_vars

\* ------------------------------------------------------------------------
\* properties of plot_convergence_history
\* ------------------------------------------------------------------------

\* the data lines read so far in the current pass (the header is skipped)
ConvDataLines == IF cv_last.name = "snopt" THEN rownum ELSE rownum - 1

\* the summary files the study expects of a completed call
ExpectedSummaries ==
    {"snopt", "snopt_wec", "alpso"}
        \cup (IF cv_args = <<"BPA", 38, 12>> THEN {"alpso_wec"} ELSE {})

\* C3: for every (wakemodel, nturbs, ndirs) outside the five recognized case
\* studies the call raises the configuration error (EnvironmentError)
\* before it opens any input file
C3_UnrecognizedCaseRaisesConfigError ==
    (cv_args \notin RecognizedCases /\ cv_pc # "resolve")
        => /\ cv_pc = "raised"
           /\ cv_err = Raised("EnvironmentError", "resolve")
           /\ cv_opened = {}

\* C4: a call that completes for a recognized case study has written the
\* snopt, snopt_wec and alpso summary files, and the alpso_wec summary file
\* as well for BPA/38/12
C4_CompletedCallWritesAllSummaries ==
    (cv_pc = "done" /\ cv_args \in RecognizedCases) => cv_written = ExpectedSummaries

\* C5 as stated: the summary table written for an input of R runs (2R data
\* lines) has exactly R rows
C5_TableHasOneRowPerInputRun ==
    (cv_last.name # "none" /\ ConvDataLines = 2 * run)
        => Cardinality(DOMAIN cv_last.table) = run

\* C5: every summary table written has exactly `runs` rows, ids 0..runs-1;
\* an input of R <= runs runs fills rows 0..R-1 and every later row is
\* <<id, 0, 0, 0>>
C5_TableHasRunsRowsZeroPadded ==
    cv_last.name # "none"
        => /\ run <= runs
           /\ DOMAIN cv_last.table = 0..(runs - 1)
           /\ Cardinality(DOMAIN cv_last.table) = runs
           /\ \A id \in 0..(runs - 1) :
                 /\ cv_last.table[id][1] = id
                 /\ id >= run => cv_last.table[id] = <<id, 0, 0, 0>>
                 /\ (id < run /\ cv_last.name = "snopt") => cv_last.table[id][4] > 0

\* a summary of an input with two whole runs has been written
C5_Witness ==
    /\ cv_last.name \in {"snopt", "alpso", "alpso_wec"}
    /\ run = 2
    /\ ConvDataLines = 4

\* the call-count line and the objective line of run r of the SNOPT input
CallCountLine(r) == cv_input[2 * r + 1]

ObjectiveLine(r) == cv_input[2 * r + 2]

\* C6 as stated: the SNOPT summary row of a run holds the first and the last
\* value of its objective line and twice the number of values of its
\* call-count line
C6_FcallsIsTwiceCallCountLineSize ==
    cv_last.name = "snopt"
        => \A r \in 0..(run - 1) :
              cv_last.table[r] = <<r, ObjectiveLine(r)[1],
                                   ObjectiveLine(r)[Len(ObjectiveLine(r))],
                                   2 * Len(CallCountLine(r))>>

\* C6: the SNOPT summary row of a run holds the first and the last value of
\* its objective line and twice the number of values of its objective line
C6_FcallsIsTwiceObjectiveLineSize ==
    cv_last.name = "snopt"
        => \A r \in 0..(run - 1) :
              cv_last.table[r] = <<r, ObjectiveLine(r)[1],
                                   ObjectiveLine(r)[Len(ObjectiveLine(r))],
                                   2 * Len(ObjectiveLine(r))>>

\* a SNOPT summary has been written for a run whose two lines differ in
\* length and whose objective line starts and ends with different values
C6_Witness ==
    /\ cv_last.name = "snopt"
    /\ \E r \in 0..(run - 1) :
          /\ Len(CallCountLine(r)) # Len(ObjectiveLine(r))
          /\ ObjectiveLine(r)[1] # ObjectiveLine(r)[Len(ObjectiveLine(r))]

\* C25: the terminal marker of every SNOPT and SNOPT+WEC run, a run with a
\* single objective value included, is at the last point of that run's
\* curve, whose function-call axis is 1 for the first point and 2*i for the
\* i-th point thereafter.
C25_MarkerAtLastTrajectoryPoint ==
    cv_drawn.pass \in {"snopt", "wec"}
        => /\ cv_drawn.curve[1][1] = 1
           /\ \A i \in 2..Len(cv_drawn.curve[1]) : cv_drawn.curve[1][i] = 2 * i
           /\ cv_drawn.marker = <<cv_drawn.curve[1][Len(cv_drawn.curve[1])],
                                  cv_drawn.curve[2][Len(cv_drawn.curve[2])]>>

\* during the SNOPT pass aepinit holds the first objective value of every
\* run parsed
SnoptInitIsFirstObjective ==
    cv_pc \in {"snopt", "save_snopt"}
        => \A r \in 0..(run - 1) : At(aepinit, r) = ObjectiveLine(r)[1]

\* no step outside the SNOPT pass writes aepinit
OnlySnoptPassWritesInit ==
    [][cv_pc # "snopt" => (aepinit' = aepinit \/ cv_pc' = "raised")]_vars

\* the call-count series of an ALPSO pass starts with the prepended 1
AlpsoCallsStartAtOne ==
    (cv_pc \in {"pswec", "ps"} /\ fcalls # <<>>) => fcalls[1] = 1

\* the scale of the pass that wrote the latest summary
SummaryScale == IF cv_last.name = "alpso_wec" THEN cv_locals.pswscale ELSE cv_locals.psscale

\* the runs of the latest ALPSO summary that the SNOPT file holds too
RunsInBothFiles ==
    IF cv_last.name \in {"alpso", "alpso_wec"}
    THEN {r \in 0..(run - 1) : r < Len(aepinit)}
    ELSE {}

\* C29 as stated: the ALPSO and ALPSO+WEC passes read the initial AEP that
\* only the SNOPT pass wrote, the prepended call count is 1, and the
\* initial AEP of summary row r equals the first objective value of SNOPT
\* run r.
C29_AlpsoInitEqualsSnoptFirstObjective ==
    /\ [](/\ SnoptInitIsFirstObjective
          /\ AlpsoCallsStartAtOne
          /\ \A r \in RunsInBothFiles :
                /\ cv_last.table[r][2] = At(aepinit, r)
                /\ At(cv_last.ulps, r) = 0)
    /\ OnlySnoptPassWritesInit

\* C29: the ALPSO and ALPSO+WEC passes read the initial AEP that only the
\* SNOPT pass wrote, the prepended call count is 1, and the initial AEP of
\* summary row r is the first objective value of SNOPT run r divided and
\* multiplied again by the pass's scale: equal to it when the scale is 1
\* (ALPSO+WEC), and otherwise equal or one unit in the last place below it
\* (3 with scale -10000 gives 2.9999999999999996).
C29_AlpsoInitIsSnoptFirstObjectiveRoundTripped ==
    /\ [](/\ SnoptInitIsFirstObjective
          /\ AlpsoCallsStartAtOne
          /\ \A r \in RunsInBothFiles :
                /\ cv_last.table[r][2] = At(aepinit, r)
                /\ At(cv_last.ulps, r) \in {-1, 0}
                /\ SummaryScale = 1 => At(cv_last.ulps, r) = 0
                /\ <<At(aepinit, r), SummaryScale>> \in FloatRoundTripBelow
                      => At(cv_last.ulps, r) = -1)
    /\ OnlySnoptPassWritesInit

C29_Witness ==
    /\ cv_last.name = "alpso"
    /\ cv_args = <<"BPA", 16, 20>>
    /\ 0 \in RunsInBothFiles
    /\ cv_last.table[0][2] = 3
    /\ At(cv_last.ulps, 0) = -1

\* ========================================================================
\* parse_alpso_files
\* ========================================================================

\* the log text is a sequence of symbols of at most this length
MaxTextLen == 4

\* the literal substrings "EVALUATIONS: " and "F = -", each held as one
\* symbol (neither contains a digit or a newline, nor overlaps itself)
EvaluationsLiteral == "EVALUATIONS: "

ObjectiveLiteral == "F = -"

Newline == "\n"

Digits == {"5", "7"}

\* single characters: digits, another printable character, the newline
AlpsoSymbols == {EvaluationsLiteral, ObjectiveLiteral, "x", Newline} \cup Digits

RECURSIVE TextsUpTo(_)
TextsUpTo(len) ==
    IF len = 0 THEN {<<>>}
    ELSE LET shorter == TextsUpTo(len - 1)
         IN shorter \cup {Append(t, c) : t \in shorter, c \in AlpsoSymbols}

\* last index of the run of digits that starts at index from
RECURSIVE DigitRunEnd(_, _)
DigitRunEnd(text, from) ==
    IF from + 1 <= Len(text) /\ text[from + 1] \in Digits
    THEN DigitRunEnd(text, from + 1) ELSE from

\* first index at or after from that holds a newline, or Len(text) + 1
RECURSIVE LineEnd(_, _)
LineEnd(text, from) ==
    IF from > Len(text) \/ text[from] = Newline THEN from ELSE LineEnd(text, from + 1)

\* `.` followed by `\d+` at index pos: one character other than a newline
\* (the first character of a literal is never followed by a digit), then at
\* least one digit
DotDigitsAt(text, pos) ==
    /\ pos + 1 <= Len(text)
    /\ text[pos] \in Digits \cup {"x"}
    /\ text[pos + 1] \in Digits

\* the same pattern with the leading `.` dropped: digits only
DigitsAt(text, pos) == pos <= Len(text) /\ text[pos] \in Digits

\* re.findall('(?<=EVALUATIONS: ).\d+', text, re.MULTILINE), scanning from pos
RECURSIVE findall_fcalls(_, _)
findall_fcalls(text, pos) ==
    IF pos > Len(text) THEN <<>>
    ELSE IF pos > 1 /\ text[pos - 1] = EvaluationsLiteral /\ DotDigitsAt(text, pos)
         THEN LET last == DigitRunEnd(text, pos + 1)
              IN <<SubSeq(text, pos, last)>> \o findall_fcalls(text, last + 1)
         ELSE findall_fcalls(text, pos + 1)

\* re.findall('(?<=F = -).*', text, re.MULTILINE), scanning from pos; an
\* empty match is followed by a search one character further on
RECURSIVE findall_obj(_, _)
findall_obj(text, pos) ==
    IF pos > Len(text) + 1 THEN <<>>
    ELSE IF pos > 1 /\ text[pos - 1] = ObjectiveLiteral
         THEN LET stop == LineEnd(text, pos)
              IN <<SubSeq(text, pos, stop - 1)>>
                    \o findall_obj(text, IF stop = pos THEN pos + 1 ELSE stop)
         ELSE findall_obj(text, pos + 1)

AlpsoInit ==
    /\ al_text \in TextsUpTo(MaxTextLen)
    /\ al_pc = "call"
    /\ al_err = NoError
    /\ al_fcalls = <<>> /\ al_obj = <<>>
    /\ NonAlpsoIdle

\* with open(filename) as f: ... return obj, fcalls
ParseAlpsoFiles ==
    /\ al_pc = "call"
    /\ \E exists \in BOOLEAN :
          IF ~exists
          THEN /\ al_pc' = "raised"
               /\ al_err' = Raised("FileNotFoundError", "open")
               /\ UNCHANGED <<al_text, al_fcalls, al_obj>>
          ELSE /\ al_fcalls' = findall_fcalls(al_text, 1)
               /\ al_obj' = findall_obj(al_text, 1)
               /\ al_pc' = "returned"
               /\ UNCHANGED <<al_text, al_err>>
    /\ UNCHANGED nonAlpsoVars

AlpsoNext == ParseAlpsoFiles

SpecAlpso == AlpsoInit /\ [][AlpsoNext]_vars

\* ------------------------------------------------------------------------
\* properties of parse_alpso_files
\* ------------------------------------------------------------------------

\* the integers that follow an occurrence of "EVALUATIONS: ", in order: for
\* each occurrence directly followed by a digit, the whole run of digits
RECURSIVE IntegersAfterEvaluations(_, _)
IntegersAfterEvaluations(text, pos) ==
    IF pos > Len(text) THEN <<>>
    ELSE IF pos > 1 /\ text[pos - 1] = EvaluationsLiteral /\ DigitsAt(text, pos)
         THEN LET last == DigitRunEnd(text, pos)
              IN <<SubSeq(text, pos, last)>> \o IntegersAfterEvaluations(text, last + 1)
         ELSE IntegersAfterEvaluations(text, pos + 1)

\* C7: the function-call sequence returned by parse_alpso_files holds one
\* token for every occurrence of "EVALUATIONS: " that is followed by an
\* integer, the token being that integer's digits, single digits included
C7_OneTokenPerEvaluationsInteger ==
    al_pc = "returned" => al_fcalls = IntegersAfterEvaluations(al_text, 1)

\* ========================================================================
\* plot_100_rotor_points and its nested sunflower_points
\* ========================================================================

\* the largest number of points asked for
MaxPoints == 100

\* np.round(alpha * np.sqrt(n)) with alpha = 1.0: the integer nearest to the
\* square root of n (sqrt(n) is never half-way between two integers)
np_round_sqrt(n) ==
    IF n = 0 THEN 0 ELSE CHOOSE m \in 1..n : m * m - m + 1 <= n /\ n <= m * m + m

\* radius with the boundary test widened to (k + 1) >= n - b
radius_BoundaryInclusive(k, n, b) ==
    IF (k + 1) >= n - b THEN Rat(1, 1) ELSE Rat(2 * (k + 1) - 1, 2 * n - (b + 1))

\* radius with the denominator n - (b + 1) in place of n - (b + 1)/2
radius_WholeBoundaryOffset(k, n, b) ==
    IF (k + 1) > n - b THEN Rat(1, 1) ELSE Rat(2 * (k + 1) - 1, 2 * n - 2 * (b + 1))

\* radius(k, n, b), represented by its square:
\* r = sqrt((k + 1) - 1/2) / sqrt(n - (b + 1)/2), or 1 on the boundary
radius(k, n, b) ==
    IF (k + 1) > n - b THEN Rat(1, 1) ELSE Rat(2 * (k + 1) - 1, 2 * n - (b + 1))

\* the loop over k of sunflower_points: point k + 1 of the result holds r
\* and theta = 2*pi*(k + 1)/phi^2 in units of 2*pi/phi^2
sunflower_points(n) ==
    LET b == np_round_sqrt(n)
    IN [idx \in 1..n |-> [r |-> radius(idx - 1, n, b), theta |-> idx]]

SunflowerInit ==
    /\ sf_n \in 0..MaxPoints
    /\ sf_pc = "call"
    /\ sf_b = 0
    /\ sf_points = <<>>
    /\ NonSunflowerIdle

\* x, y = sunflower_points(npoints) and the scatter plot of the points
PlotRotorPoints ==
    /\ sf_pc = "call"
    /\ sf_b' = np_round_sqrt(sf_n)
    /\ sf_points' = sunflower_points(sf_n)
    /\ sf_pc' = "plotted"
    /\ UNCHANGED sf_n
    /\ UNCHANGED nonSunflowerVars

SunflowerNext == PlotRotorPoints

SpecSunflower == SunflowerInit /\ [][SunflowerNext]_vars

\* ------------------------------------------------------------------------
\* properties of sunflower_points
\* ------------------------------------------------------------------------

\* the indices k whose point lies exactly on the unit circle
OnUnitCircle == {k \in 0..(Len(sf_points) - 1) : RatEq(sf_points[k + 1].r, Rat(1, 1))}

\* C8: for n >= 1 every generated point lies in the closed unit disk,
\* r(k) <= 1 for all k in 0..n-1, and 2k+1 <= 2n-b-1 for every interior
\* index k, b being the boundary-point count
C8_EveryPointInClosedUnitDisk ==
    (sf_pc = "plotted" /\ sf_n >= 1)
        => /\ Len(sf_points) = sf_n
           /\ \A k \in 0..(sf_n - 1) :
                 /\ sf_points[k + 1].r[2] > 0
                 /\ sf_points[k + 1].r[1] <= sf_points[k + 1].r[2]
           /\ \A k \in 0..(sf_n - sf_b - 1) : 2 * k + 1 <= 2 * sf_n - sf_b - 1

\* 100 points have been generated, interior points among them
C8_Witness ==
    /\ sf_pc = "plotted"
    /\ sf_n = 100
    /\ \E k \in 0..(sf_n - 1) : sf_points[k + 1].r[1] < sf_points[k + 1].r[2]

\* C9: for n >= 1 the points placed exactly on the unit circle are the last
\* b indices n-b .. n-1, b being the integer nearest to sqrt(n); for n = 100
\* there are 10 of them
C9_BoundaryPointsAreLastRoundSqrt ==
    (sf_pc = "plotted" /\ sf_n >= 1)
        => LET count == Cardinality(OnUnitCircle)
           IN /\ count * count - count + 1 <= sf_n
              /\ sf_n <= count * count + count
              /\ OnUnitCircle = (sf_n - count)..(sf_n - 1)
              /\ count = sf_b
              /\ sf_n = 100 => count = 10

\* 100 points have been generated, 10 of them on the unit circle
C9_Witness ==
    /\ sf_pc = "plotted"
    /\ sf_n = 100
    /\ OnUnitCircle = 90..99

\* ========================================================================
\* make_windrose_plots and plot_windrose
\*   frequencies are held in thousandths, speeds in tenths of m/s
\* ========================================================================

\* the speeds a table may hold as its largest (tenths of m/s)
WindroseTopSpeeds == {0, 24, 76, 125}

WindroseDirs == {12, 16, 20, 36, 72}

\* data_file is bound for these values of dirs only
SupportedDirs == {12, 20, 36, 72}

\* a table of `dirs` rows whose frequencies sum to 1: row `at` holds `peak`
\* thousandths, the other rows share the rest as evenly as whole
\* thousandths allow; row 1 holds the largest speed
WindroseTable(dirs, peak, at, top) ==
    LET rest == 1000 - peak
        base == rest \div (dirs - 1)
        extra == rest % (dirs - 1)
        other(i) == IF i < at THEN i ELSE i - 1
    IN [i \in 1..dirs |->
          <<((i - 1) * 360) \div dirs,
            IF i = 1 THEN top ELSE top \div 2,
            IF i = at THEN peak ELSE base + (IF other(i) <= extra THEN 1 ELSE 0)>>]

Column(table, c) == [i \in 1..Len(table) |-> table[i][c]]

\* spacing and minor_ticks of the frequency rose
frequency_spacing(dirs) == IF dirs \in {12, 20} THEN 5 ELSE IF dirs = 36 THEN 2 ELSE 1

frequency_minor_ticks(dirs) == IF dirs \in {12, 20} THEN 4 ELSE IF dirs = 36 THEN 1 ELSE 4

\* spacing of the speed rose
speed_spacing(dirs) == IF dirs = 36 THEN 2 ELSE 5

\* the frequencies f (thousandths) whose double-precision product f*100.0
\* exceeds the exact product, among those where f*100.0 + spacing/2 is a
\* whole number exactly
FloatProductExceeds == {140, 275, 280, 545, 550, 555, 560}

\* np.ceil(np.max(frequency)*100.0 + spacing/2)
frequency_stop(frequency, spacing) ==
    LET top == SetMax(SeqRange(frequency))
        twentieths == 2 * top + 10 * spacing
    IN IF twentieths % 20 = 0
       THEN twentieths \div 20 + (IF top \in FloatProductExceeds THEN 1 ELSE 0)
       ELSE twentieths \div 20 + 1

\* np.ceil(np.max(speed) + spacing/2)
speed_stop(speed, spacing) ==
    LET twentieths == 2 * SetMax(SeqRange(speed)) + 10 * spacing
    IN IF twentieths % 20 = 0 THEN twentieths \div 20 ELSE twentieths \div 20 + 1

\* an arange that runs on to the first multiple of step at or beyond stop
np_arange_ThroughStop(stop, step) ==
    [i \in 1..((stop + step - 1) \div step + 1) |-> (i - 1) * step]

\* list(np.arange(0, stop, step)): the multiples of step below stop
np_arange(stop, step) == [i \in 1..((stop + step - 1) \div step) |-> (i - 1) * step]

WindroseInit ==
    /\ wr_dirs \in WindroseDirs
    /\ wr_pc = "load"
    /\ wr_err = NoError
    /\ wr_plot_data = <<>>
    /\ wr_calls = <<>>
    /\ NonWindroseIdle

WindroseRaise(type, at) ==
    /\ wr_pc' = "raised"
    /\ wr_err' = Raised(type, at)
    /\ UNCHANGED <<wr_dirs, wr_plot_data, wr_calls>>

\* the choice of data_file and plot_data = np.loadtxt(...)
WindroseLoad ==
    /\ wr_pc = "load"
    /\ IF wr_dirs \notin SupportedDirs THEN WindroseRaise("UnboundLocalError", "load")
       ELSE \E exists \in BOOLEAN :
               IF ~exists THEN WindroseRaise("OSError", "load")
               ELSE \E peak \in 0..1000, at \in {1, wr_dirs}, top \in WindroseTopSpeeds :
                       /\ wr_plot_data' = WindroseTable(wr_dirs, peak, at, top)
                       /\ wr_pc' = "frequency"
                       /\ UNCHANGED <<wr_dirs, wr_err, wr_calls>>
    /\ UNCHANGED nonWindroseVars

\* ---- arrays and angles of plot_windrose
\*   directions are held in tenths of a degree, polar angles in units of
\*   pi/3600; an array argument is a record of its contents and its owner:
\*   "plot_data" when it shares the storage of the loaded table, "fresh" when
\*   the argument expression allocated it

\* direction = plot_data[:, 0], as the expressions below read it
direction_column(plot_data) == [i \in 1..Len(plot_data) |-> 10 * plot_data[i][1]]

\* the frequency rose's argument when the column itself is shifted in place
frequency_direction_InPlace(plot_data, dirs) ==
    [array |-> [i \in 1..Len(plot_data) |-> direction_column(plot_data)[i] - 1800 \div dirs],
     owner |-> "plot_data"]

\* np.copy(direction) - 0.5*360/dirs
frequency_direction(plot_data, dirs) ==
    [array |-> [i \in 1..Len(plot_data) |-> direction_column(plot_data)[i] - 1800 \div dirs],
     owner |-> "fresh"]

\* direction - 0.5*360/dirs
speed_direction(plot_data, dirs) ==
    [array |-> [i \in 1..Len(plot_data) |-> direction_column(plot_data)[i] - 1800 \div dirs],
     owner |-> "fresh"]

\* math.radians, from tenths of a degree to units of pi/3600
radians(x) == 2 * x

\* width = (2 * np.pi) / N
bar_width(N) == 7200 \div N

\* the shift of plot_windrose left out
half_width_shift_None(direction, width) == direction

\* direction -= width / 2.
half_width_shift(direction, width) == [i \in 1..Len(direction) |-> direction[i] - width \div 2]

\* direction += 270., the radians(...) * -1. loop and the half-width shift
transformed_direction(direction) ==
    half_width_shift([i \in 1..Len(direction) |-> -radians(direction[i] + 2700)],
                     bar_width(Len(direction)))

\* the table after plot_windrose wrote through its direction argument
written_through(plot_data, direction) ==
    IF direction.owner = "plot_data"
    THEN [i \in 1..Len(plot_data) |->
            <<transformed_direction(direction.array)[i], plot_data[i][2], plot_data[i][3]>>]
    ELSE plot_data

\* the radii of the dotted circles, as fractions <<numerator, denominator>>:
\* ticks[major_tick_count] + (minor_tick_count + 1) * minor_tick_distance
minor_circles(ticks, minor_ticks) ==
    IF minor_ticks > 0 /\ Len(ticks) > 1
    THEN {<<ticks[j] * (minor_ticks + 1) + (k + 1) * (ticks[2] - ticks[1]), minor_ticks + 1>> :
            j \in 1..Len(ticks), k \in 0..(minor_ticks - 1)}
    ELSE {}

\* plot_windrose(direction, values, ticks, ...): the direction argument is
\* transformed in place, minor_tick_distance reads ticks[1]; the call is
\* recorded with the directions it received, the bar positions, the ticks
\* and the dotted circles it draws
plot_windrose(direction, file_name, unit, ticks, minor_ticks, next) ==
    /\ wr_plot_data' = written_through(wr_plot_data, direction)
    /\ IF Len(ticks) < 2
       THEN /\ wr_pc' = "raised"
            /\ wr_err' = Raised("IndexError", file_name)
            /\ UNCHANGED <<wr_dirs, wr_calls>>
       ELSE /\ wr_calls' = Append(wr_calls,
                               [file_name |-> file_name, unit |-> unit, ticks |-> ticks,
                                minor_ticks |-> minor_ticks,
                                plot_radius |-> SetMax(SeqRange(ticks)),
                                bars |-> Len(wr_plot_data),
                                received |-> direction.array,
                                direction |-> transformed_direction(direction.array),
                                width |-> bar_width(Len(direction.array)),
                                minor_circles |-> minor_circles(ticks, minor_ticks)])
            /\ wr_pc' = next
            /\ UNCHANGED <<wr_dirs, wr_err>>

\* the ticks of the frequency rose and its plot_windrose call
WindroseFrequencyRose ==
    /\ wr_pc = "frequency"
    /\ LET spacing == frequency_spacing(wr_dirs)
           ticks == np_arange(frequency_stop(Column(wr_plot_data, 3), spacing), spacing)
       IN plot_windrose(frequency_direction(wr_plot_data, wr_dirs), "freq", "%", ticks,
                        frequency_minor_ticks(wr_dirs), "speed")
    /\ UNCHANGED nonWindroseVars

\* the ticks of the speed rose and its plot_windrose call
WindroseSpeedRose ==
    /\ wr_pc = "speed"
    /\ LET spacing == speed_spacing(wr_dirs)
           ticks == np_arange(speed_stop(Column(wr_plot_data, 2), spacing), spacing)
       IN plot_windrose(speed_direction(wr_plot_data, wr_dirs), "speed", "m/s", ticks,
                        spacing - 1, "done")
    /\ UNCHANGED nonWindroseVars

WindroseNext == WindroseLoad \/ WindroseFrequencyRose \/ WindroseSpeedRose

SpecWindrose == WindroseInit /\ [][WindroseNext]_vars

\* ------------------------------------------------------------------------
\* properties of make_windrose_plots
\* ------------------------------------------------------------------------

\* the largest frequency of the loaded table, in thousandths
TopFrequency == SetMax(SeqRange(Column(wr_plot_data, 3)))

\* the frequency rose of the 20-direction path has been drawn
FrequencyRoseOf20Drawn == wr_dirs = 20 /\ Len(wr_calls) >= 1

FrequencyTicks == wr_calls[1].ticks

LargestFrequencyTick == FrequencyTicks[Len(FrequencyTicks)]

TicksAreMultiplesOf5From0 == \A i \in 1..Len(FrequencyTicks) : FrequencyTicks[i] = 5 * (i - 1)

\* C10 as stated: in the 20-direction path the major ticks of the frequency
\* rose are the multiples of 5 from 0 and the largest one is at least
\* ceil(100*max(frequency) + 2.5)
C10_LargestTickAtLeastCeil ==
    FrequencyRoseOf20Drawn
        => /\ TicksAreMultiplesOf5From0
           /\ 10 * LargestFrequencyTick >= TopFrequency + 25

\* C10: in the 20-direction path the major ticks of the frequency rose are
\* the multiples of 5 from 0 up to the multiple of 5 nearest to
\* 100*max(frequency): the largest tick is within 2.5 of 100*max(frequency),
\* on either side
C10_LargestTickNearestMultipleOf5 ==
    FrequencyRoseOf20Drawn
        => /\ Len(FrequencyTicks) >= 2
           /\ TicksAreMultiplesOf5From0
           /\ 10 * LargestFrequencyTick - TopFrequency <= 25
           /\ TopFrequency - 10 * LargestFrequencyTick <= 25

\* the frequency rose of the 20-direction path has been drawn and its
\* tallest bar rises above the largest major tick
C10_Witness ==
    /\ FrequencyRoseOf20Drawn
    /\ 10 * LargestFrequencyTick < TopFrequency


\* the direction column np.loadtxt returned, in degrees
LoadedDirections == [i \in 1..wr_dirs |-> ((i - 1) * 360) \div wr_dirs]

\* C22: the direction column of the loaded table is unchanged across both
\* plot_windrose calls, and the speed rose receives the same untransformed
\* directions as the frequency rose, although each call transforms the
\* array it receives.
C22_TableDirectionsSurviveBothRoses ==
    /\ Len(wr_plot_data) > 0 => Column(wr_plot_data, 1) = LoadedDirections
    /\ \A c \in 1..Len(wr_calls) :
          /\ wr_calls[c].received = [i \in 1..wr_dirs |-> 10 * LoadedDirections[i] - 1800 \div wr_dirs]
          /\ wr_calls[c].direction # wr_calls[c].received

C22_Witness ==
    /\ wr_pc = "done" /\ Len(wr_calls) = 2
    /\ wr_calls[1].received = wr_calls[2].received
    /\ wr_calls[1].direction # wr_calls[1].received
    /\ Column(wr_plot_data, 1) = LoadedDirections

\* C23 as stated: the wedge of every direction d that plot_windrose
\* receives is centred on -(d + 270) degrees.
C23_WedgeCentredOnReceivedDirection ==
    \A c \in 1..Len(wr_calls) : \A i \in 1..Len(wr_calls[c].received) :
        wr_calls[c].direction[i] = -radians(wr_calls[c].received[i] + 2700)

\* C23: the wedge of every direction d that plot_windrose receives, with N
\* bins, is centred half a bar width below the polar angle -(d + 270)
\* degrees, i.e. on -(d + 270) - 180/N degrees; make_windrose_plots passes
\* the table direction less 180/dirs, so the wedge lies centred on
\* -(D + 270) degrees of the table direction D.
C23_WedgeCentredHalfWidthBelowReceived ==
    \A c \in 1..Len(wr_calls) : \A i \in 1..Len(wr_calls[c].received) :
        /\ wr_calls[c].direction[i]
              = -radians(wr_calls[c].received[i] + 2700) - 3600 \div Len(wr_calls[c].received)
        /\ wr_calls[c].direction[i] = -radians(10 * LoadedDirections[i] + 2700)

C23_Witness ==
    /\ wr_dirs = 20 /\ Len(wr_calls) = 2
    /\ wr_calls[2].received[2] = 90
    /\ wr_calls[2].direction[2] = -5760
    /\ wr_calls[2].width = 360

\* C24: with minor_ticks > 0 and at least two major ticks, every dotted
\* minor circle has a radius strictly between two consecutive major ticks,
\* none beyond the largest major tick.
C24_MinorCirclesBetweenMajorTicks ==
    \A c \in 1..Len(wr_calls) :
        (wr_calls[c].minor_ticks > 0 /\ Len(wr_calls[c].ticks) > 1) =>
            \A r \in wr_calls[c].minor_circles :
                \E j \in 1..(Len(wr_calls[c].ticks) - 1) :
                    /\ wr_calls[c].ticks[j] * r[2] < r[1]
                    /\ r[1] < wr_calls[c].ticks[j + 1] * r[2]

\* ========================================================================
\* plot_optimization_results
\* ========================================================================

\* an input table holds at most this many optimization runs
MaxOptRuns == 2

OptModels == {"BPA", "JENSEN", "FLORIS"}

OptTurbineCounts == {9, 16, 25, 38, 60}

\* how the calls of one run are spread over its rows: none at all, function
\* calls in its first row only, sensitivity calls in its last row only
OptCallProfiles == {"none", "first", "last"}

\* ALPSO makes no sensitivity calls
AlpsoCallProfiles == {"none", "first"}

RECURSIVE ProfilesOfLen(_, _)
ProfilesOfLen(choices, len) ==
    IF len = 0 THEN {<<>>}
    ELSE {Append(p, c) : p \in ProfilesOfLen(choices, len - 1), c \in choices}

\* final AEP of run id in the table of an algorithm (kW, small stand-ins)
OptFinalAep(offset, id) == 50 + 10 * id + offset

\* the rows of one run: one row, or a first-stage row followed by the row
\* of the last stage, whose ti_opt is final_ti and whose expansion factor is 1
OptRunRows(id, profile, stages, first_ef, final_ti, offset) ==
    LET f == IF profile = "first" THEN 1 ELSE 0
        s == IF profile = "last" THEN 2 ELSE 0
        last == [id |-> id, ef |-> 1, ti_opt |-> final_ti, aep |-> OptFinalAep(offset, id),
                 fcalls |-> IF stages = 1 THEN f ELSE 0, scalls |-> s]
    IN IF stages = 1 THEN <<last>>
       ELSE <<[id |-> id, ef |-> first_ef, ti_opt |-> 0,
               aep |-> OptFinalAep(offset, id) - 5, fcalls |-> f, scalls |-> 0], last>>

RECURSIVE OptTable(_, _, _, _, _, _)
OptTable(profiles, from, stages, first_ef, final_ti, offset) ==
    IF from > Len(profiles) THEN <<>>
    ELSE OptRunRows(from - 1, profiles[from], stages, first_ef, final_ti, offset)
            \o OptTable(profiles, from + 1, stages, first_ef, final_ti, offset)

\* the boolean row masks of the run-end selections
IsConverged == "ti_opt == 5"

IsLastStep == "ef == 1"

IsAnyRow == ":"

IsAlpsoWecEnd == "ti_opt == 4"

RowMask(mask, row) ==
    IF mask = IsConverged THEN row.ti_opt = 5
    ELSE IF mask = IsLastStep THEN row.ef = 1
    ELSE IF mask = IsAlpsoWecEnd THEN row.ti_opt = 4
    ELSE TRUE

\* data[mask, column]: the rows of the table that satisfy the mask, in order
RECURSIVE SelectRowsBy(_, _)
SelectRowsBy(rows, mask) ==
    IF rows = <<>> THEN <<>>
    ELSE (IF RowMask(mask, Head(rows)) THEN <<Head(rows)>> ELSE <<>>)
            \o SelectRowsBy(Tail(rows), mask)

\* np.sum(fcalls[id == i]) + np.sum(scalls[id == i])
RECURSIVE SummedCalls(_, _)
SummedCalls(rows, i) ==
    IF rows = <<>> THEN 0
    ELSE (IF Head(rows).id = i THEN Head(rows).fcalls + Head(rows).scalls ELSE 0)
            + SummedCalls(Tail(rows), i)

\* tfcalls + tscalls over np.arange(0, run_end_aep.size)
opt_ctfcalls(rows, size) == [k \in 1..size |-> SummedCalls(rows, k - 1)]

\* ps_fcalls + ps_scalls, row by row
opt_row_calls(rows) == [k \in 1..Len(rows) |-> rows[k].fcalls + rows[k].scalls]

\* run_end_aep[ctfcalls > 0]: the entries of run_end_aep at the indices
\* where the mask array is positive, each with its index
RECURSIVE MaskedFrom(_, _, _)
MaskedFrom(run_end_aep, mask, from) ==
    IF from > Len(run_end_aep) THEN <<>>
    ELSE (IF mask[from] > 0 THEN <<<<from - 1, run_end_aep[from].aep>>>> ELSE <<>>)
            \o MaskedFrom(run_end_aep, mask, from + 1)

\* the SNOPT+WEC-D sample masked by the SNOPT+WEC-D call counts
wecd_mask_Own(snw_ctfcalls, swd_ctfcalls) == swd_ctfcalls

\* swd_run_end_aep[snw_ctfcalls > 0]: the mask of the SNOPT+WEC-D sample
wecd_mask(snw_ctfcalls, swd_ctfcalls) == snw_ctfcalls

\* the loading chain: which locals it binds for (model, nturbs, ps_wec)
OptBound(model, nturbs, ps_wec) ==
    IF model = "BPA" THEN
        IF nturbs = 9 THEN {"data_snopt_no_wec", "data_snopt_wecd", "data_ps"}
        ELSE IF nturbs = 16
        THEN {"data_snopt_no_wec", "data_snopt_wecd", "data_ps", "tmax_aep"}
                \cup (IF ps_wec THEN {"data_ps_wec"} ELSE {})
        ELSE IF nturbs \in {38, 60}
        THEN {"data_snopt_no_wec", "data_snopt_wecd", "data_ps", "tmax_aep"}
        ELSE {}
    ELSE IF model = "JENSEN" /\ nturbs \in {16, 38}
    THEN {"data_snopt_no_wec", "data_snopt_wecd", "tmax_aep"}
    ELSE {}

\* ps_wec after the chain: every branch but BPA/9 and BPA/16 that binds
\* tmax_aep sets it to False
OptPsWec(model, nturbs, ps_wec) ==
    IF "tmax_aep" \in OptBound(model, nturbs, ps_wec) /\ ~(model = "BPA" /\ nturbs = 16)
    THEN FALSE ELSE ps_wec

NoOptData == [snopt |-> <<>>, wecd |-> <<>>, ps |-> <<>>, ps_wec |-> <<>>]

OptInit ==
    /\ po_args \in OptModels \X OptTurbineCounts \X BOOLEAN \X BOOLEAN
    /\ po_pc = "load"
    /\ po_err = NoError
    /\ po_bound = {}
    /\ po_ps_wec = po_args[4]
    /\ po_data = NoOptData
    /\ po_ctfcalls = NoOptData
    /\ po_wake_loss = NoOptData
    /\ NonOptIdle

OptRaise(type, at) ==
    /\ po_pc' = "raised"
    /\ po_err' = Raised(type, at)
    /\ UNCHANGED <<po_args, po_bound, po_ps_wec, po_data>>

\* the np.loadtxt calls of the chain.  The SNOPT+WEC-D file may hold one run
\* fewer than the SNOPT file.
OptLoad ==
    /\ po_pc = "load"
    /\ LET model == po_args[1]
           nturbs == po_args[2]
           bound == OptBound(model, nturbs, po_args[4])
           bpa == model = "BPA"
       IN \E exists \in BOOLEAN :
             IF bound # {} /\ ~exists
             THEN OptRaise("OSError", "load") /\ UNCHANGED <<po_ctfcalls, po_wake_loss>>
             ELSE /\ po_bound' = bound
                  /\ po_ps_wec' = OptPsWec(model, nturbs, po_args[4])
                  /\ \E n \in 1..MaxOptRuns, short \in BOOLEAN :
                        /\ short => n >= 2
                        /\ \E p1 \in ProfilesOfLen(OptCallProfiles, n),
                              p2 \in ProfilesOfLen(OptCallProfiles, IF short THEN n - 1 ELSE n),
                              p3 \in ProfilesOfLen(AlpsoCallProfiles, n),
                              p4 \in ProfilesOfLen(AlpsoCallProfiles, n) :
                              po_data' =
                                [snopt |-> IF "data_snopt_no_wec" \in bound
                                           THEN OptTable(p1, 1, IF bpa THEN 2 ELSE 1, 1,
                                                         IF bpa THEN 5 ELSE 0, 0)
                                           ELSE <<>>,
                                 wecd |-> IF "data_snopt_wecd" \in bound
                                          THEN OptTable(p2, 1, 2, 3, IF bpa THEN 5 ELSE 0, 1)
                                          ELSE <<>>,
                                 ps |-> IF "data_ps" \in bound
                                        THEN OptTable(p3, 1, 1, 1, 0, 2) ELSE <<>>,
                                 ps_wec |-> IF "data_ps_wec" \in bound
                                            THEN OptTable(p4, 1, 2, 3, 4, 3) ELSE <<>>]
                  /\ po_pc' = "snopt"
                  /\ UNCHANGED <<po_args, po_err, po_ctfcalls, po_wake_loss>>
    /\ UNCHANGED nonOptVars

\* one block of statistics: the run-end rows, the call counts, the masked
\* sample and its aggregates (np.max of an empty sample raises ValueError)
OptStats(at, algorithm, run_end_aep, ctfcalls, mask, next) ==
    /\ po_pc = at
    /\ IF "tmax_aep" \notin po_bound
       THEN OptRaise("UnboundLocalError", at) /\ UNCHANGED <<po_ctfcalls, po_wake_loss>>
       ELSE IF Len(mask) # Len(run_end_aep)
       THEN OptRaise("IndexError", at) /\ UNCHANGED <<po_ctfcalls, po_wake_loss>>
       ELSE LET sample == MaskedFrom(run_end_aep, mask, 1)
            IN IF sample = <<>>
               THEN OptRaise("ValueError", at) /\ UNCHANGED <<po_ctfcalls, po_wake_loss>>
               ELSE /\ po_ctfcalls' = [po_ctfcalls EXCEPT ![algorithm] = ctfcalls]
                    /\ po_wake_loss' = [po_wake_loss EXCEPT ![algorithm] = sample]
                    /\ po_pc' = next
                    /\ UNCHANGED <<po_args, po_err, po_bound, po_ps_wec, po_data>>
    /\ UNCHANGED nonOptVars

\* snw_*: data_snopt_no_wec is read first
OptSnoptStats ==
    /\ po_pc = "snopt"
    /\ IF "data_snopt_no_wec" \notin po_bound
       THEN /\ OptRaise("UnboundLocalError", "snopt")
            /\ UNCHANGED <<po_ctfcalls, po_wake_loss>>
            /\ UNCHANGED nonOptVars
       ELSE LET rows == po_data.snopt
                snw_run_end_aep == IF po_args[1] = "BPA" THEN SelectRowsBy(rows, IsConverged)
                                   ELSE SelectRowsBy(rows, IsAnyRow)
                snw_ctfcalls == opt_ctfcalls(rows, Len(snw_run_end_aep))
            IN OptStats("snopt", "snopt", snw_run_end_aep, snw_ctfcalls, snw_ctfcalls, "wecd")

\* swd_*
OptWecdStats ==
    LET rows == po_data.wecd
        swd_run_end_aep == IF po_args[1] = "BPA" THEN SelectRowsBy(rows, IsConverged)
                           ELSE SelectRowsBy(rows, IsLastStep)
        swd_ctfcalls == opt_ctfcalls(rows, Len(swd_run_end_aep))
    IN OptStats("wecd", "wecd", swd_run_end_aep, swd_ctfcalls,
                wecd_mask(po_ctfcalls.snopt, swd_ctfcalls),
                IF po_args[3] THEN "ps" ELSE "plots")

\* ps_*, under `if ps:`
OptPsStats ==
    /\ po_pc = "ps"
    /\ IF "data_ps" \notin po_bound
       THEN /\ OptRaise("UnboundLocalError", "ps")
            /\ UNCHANGED <<po_ctfcalls, po_wake_loss>>
            /\ UNCHANGED nonOptVars
       ELSE LET rows == po_data.ps
                ps_ctfcalls == opt_row_calls(rows)
            IN OptStats("ps", "ps", rows, ps_ctfcalls, ps_ctfcalls,
                        IF po_ps_wec THEN "ps_wec" ELSE "plots")

\* ps_wec_*, under `if ps_wec:`
OptPsWecStats ==
    /\ po_pc = "ps_wec"
    /\ IF "data_ps_wec" \notin po_bound
       THEN /\ OptRaise("UnboundLocalError", "ps_wec")
            /\ UNCHANGED <<po_ctfcalls, po_wake_loss>>
            /\ UNCHANGED nonOptVars
       ELSE LET rows == po_data.ps_wec
                ps_wec_run_end_aep == SelectRowsBy(rows, IsAlpsoWecEnd)
                ps_wec_ctfcalls == opt_ctfcalls(rows, Len(ps_wec_run_end_aep))
            IN OptStats("ps_wec", "ps_wec", ps_wec_run_end_aep, ps_wec_ctfcalls,
                        ps_wec_ctfcalls, "plots")

\* the three box plots, savefig and show
OptPlots ==
    /\ po_pc = "plots"
    /\ po_pc' = "done"
    /\ UNCHANGED <<po_args, po_err, po_bound, po_ps_wec, po_data, po_ctfcalls, po_wake_loss>>
    /\ UNCHANGED nonOptVars

OptNext ==
    \/ OptLoad \/ OptSnoptStats \/ OptWecdStats \/ OptPsStats \/ OptPsWecStats \/ OptPlots

SpecOpt == OptInit /\ [][OptNext]_vars

\* ------------------------------------------------------------------------
\* properties of plot_optimization_results
\* ------------------------------------------------------------------------

OptAlgorithms == {"snopt", "wecd", "ps", "ps_wec"}

\* the run indices whose final AEP is in the wake-loss sample of an algorithm
RunsInSample(algorithm) ==
    {po_wake_loss[algorithm][k][1] : k \in 1..Len(po_wake_loss[algorithm])}

\* the run identifiers of an algorithm's table whose function-plus-
\* sensitivity calls, summed over all rows of that identifier, are nonzero
RunsWithCalls(algorithm) ==
    {po_data[algorithm][k].id : k \in 1..Len(po_data[algorithm])}
        \cap {i \in 0..MaxOptRuns : SummedCalls(po_data[algorithm], i) > 0}

\* C11: for each algorithm a run's final AEP is in that algorithm's
\* wake-loss sample if and only if that algorithm's own summed
\* function-plus-sensitivity call count of the run is nonzero
C11_SampleMaskedByOwnCallCount ==
    \A algorithm \in OptAlgorithms :
        po_wake_loss[algorithm] # <<>> => RunsInSample(algorithm) = RunsWithCalls(algorithm)

\* C12: for model BPA and each turbine count in {9, 16, 38, 60}, once the
\* input files are loaded the wake-loss computation has a bound tmax_aep
C12_TmaxBoundForEverySupportedCount ==
    (/\ po_args[1] = "BPA"
     /\ po_args[2] \in {9, 16, 38, 60}
     /\ po_pc # "load"
     /\ po_err.type # "OSError")
        => /\ "tmax_aep" \in po_bound
           /\ po_err.type # "UnboundLocalError"

\* ---------------------------------------------------------------------------
\* get_statistics_38_turbs and get_statistics_case_studies
\* ---------------------------------------------------------------------------

MaxStatsRuns == 2

StatsFunctions == {"get_statistics_38_turbs", "get_statistics_case_studies"}

StatsTurbineCounts == {9, 16, 38, 60}

\* dirs of the call; 0 stands for None
StatsDirs == {0, 12}

\* how a row's sensitivity-call column relates to its function-call column
StatsScallKinds == {"zero", "one", "same"}

\* the final AEP of a run: the run `best` holds the largest
StatsFinalAep(id, best) == 60 + (IF id = best THEN 9 ELSE id)

StatsRow(id, ef, ti, aep, orig, calls, kind) ==
    [id |-> id, ef |-> ef, ti_opt |-> ti, aep |-> aep, orig_aep |-> orig, fcalls |-> calls,
     scalls |-> IF kind = "zero" THEN 0 ELSE IF kind = "one" THEN 1 ELSE calls]

\* the rows of one run of a results file: the row of the last stage alone, or
\* preceded by a first-stage row, or by a first-stage row and an unconverged
\* row at the last expansion factor; run 0 starts from the layout of AEP
\* `orig`, every later run from a layout of its own
StatsRunRows(id, stages, first_ef, final_ti, best, orig, kind) ==
    LET aep == StatsFinalAep(id, best)
        final == StatsRow(id, 1, final_ti, aep, orig + id, 2 + stages, kind)
        first == StatsRow(id, first_ef, 0, aep - 20, orig + id, 2, kind)
        middle == StatsRow(id, 1, 0, aep - 10, orig + id, 3, kind)
    IN IF stages = 1 THEN <<final>>
       ELSE IF stages = 2 THEN <<first, final>>
       ELSE <<first, middle, final>>

RECURSIVE StatsTable(_, _, _, _, _, _, _, _)
StatsTable(n, from, stages, first_ef, final_ti, best, orig, kind) ==
    IF from >= n THEN <<>>
    ELSE StatsRunRows(from, stages, first_ef, final_ti, best, orig, kind)
            \o StatsTable(n, from + 1, stages, first_ef, final_ti, best, orig, kind)

\* np.argmax: the zero-based index of the first largest entry
np_argmax(values) ==
    (CHOOSE i \in 1..Len(values) :
        /\ \A j \in 1..Len(values) : values[j] <= values[i]
        /\ \A j \in 1..(i - 1) : values[j] < values[i]) - 1

AepColumn(rows) == [k \in 1..Len(rows) |-> rows[k].aep]

\* run_end_aep / sr_orig_aep - 1. as exact fractions <<numerator, denominator>>
run_improvement(run_end_aep, base_aep) ==
    [k \in 1..Len(run_end_aep) |-> <<run_end_aep[k] - base_aep, base_aep>>]

\* the base taken from the first row of the algorithm's own table
improvement_base_OwnFile(relax, own) == own[1].orig_aep

\* sr_orig_aep = data_snopt_relax[0, 5], the base of all three improvements
improvement_base(relax, own) == relax[1].orig_aep

\* sr_tfcalls + sr_tscalls, both of which are read from the function-call column
sr_calls_WithSensitivityColumn(rows) ==
    [k \in 1..Len(rows) |-> rows[k].fcalls + rows[k].scalls]

sr_calls(rows) == [k \in 1..Len(rows) |-> rows[k].fcalls + rows[k].fcalls]

\* id[np.argmax(run_end_aep)]: the index into the selection, applied to the
\* whole id column
best_layout(rows, mask) == rows[np_argmax(AepColumn(SelectRowsBy(rows, mask))) + 1].id

NoStatsData == [snopt_mstart |-> <<>>, snopt_relax |-> <<>>, ps_mstart |-> <<>>]

NoStatsOut ==
    [s_best_layout |-> -1, sr_best_layout |-> -1, ps_best_layout |-> -1, sr_calls |-> <<>>,
     sm_run_improvement |-> <<>>, sr_run_improvement |-> <<>>, ps_run_improvement |-> <<>>]

StatsInit ==
    /\ st_call \in ({"get_statistics_38_turbs"} \X {38} \X {12})
                    \cup ({"get_statistics_case_studies"} \X StatsTurbineCounts \X StatsDirs)
    /\ st_pc = "load"
    /\ st_err = NoError
    /\ st_data = NoStatsData
    /\ st_out = NoStatsOut
    /\ NonStatsIdle

StatsRaise(type, at) ==
    /\ st_pc' = "raised"
    /\ st_err' = Raised(type, at)
    /\ UNCHANGED <<st_call, st_data, st_out>>

\* the selection of the run-end rows of each table
StatsRelaxMask == IF st_call[1] = "get_statistics_38_turbs" THEN IsLastStep ELSE IsConverged

StatsMstartMask == IF st_call[1] = "get_statistics_38_turbs" THEN IsAnyRow ELSE IsConverged

\* the np.loadtxt calls: two files in get_statistics_38_turbs, three in each
\* branch of the chain of get_statistics_case_studies, which has no else
StatsLoad ==
    /\ st_pc = "load"
    /\ \E exists \in BOOLEAN, n \in 1..MaxStatsRuns :
       \E best \in 0..(n - 1), sr_stages \in 1..3, sm_stages \in 1..2,
          kind \in StatsScallKinds, sm_orig \in {40, 41} :
            IF st_call[1] = "get_statistics_case_studies" /\ st_call[2] \notin {16, 38, 60}
            THEN StatsRaise("UnboundLocalError", "sr_id")
            ELSE IF ~exists
            THEN StatsRaise("OSError", "loadtxt")
            ELSE /\ st_data' =
                      [snopt_mstart |-> StatsTable(n, 0, sm_stages, 1, 5, (n - 1) - best, sm_orig, kind),
                       snopt_relax |-> StatsTable(n, 0, sr_stages, 3, 5, best, 40, kind),
                       ps_mstart |-> IF st_call[1] = "get_statistics_case_studies"
                                     THEN StatsTable(n, 0, sm_stages, 1, 4, best, sm_orig, "zero")
                                     ELSE <<>>]
                 /\ st_pc' = "compute"
                 /\ UNCHANGED <<st_call, st_err, st_out>>
    /\ UNCHANGED nonStatsVars

\* the statistics between the loads and the prints
StatsCompute ==
    /\ st_pc = "compute"
    /\ LET relax == st_data.snopt_relax
           mstart == st_data.snopt_mstart
           ps == st_data.ps_mstart
           sr_run_end_aep == AepColumn(SelectRowsBy(relax, StatsRelaxMask))
           sm_run_end_aep == AepColumn(SelectRowsBy(mstart, StatsMstartMask))
           ps_run_end_aep == AepColumn(SelectRowsBy(ps, IsAlpsoWecEnd))
           with_ps == st_call[1] = "get_statistics_case_studies"
       IN st_out' =
            [s_best_layout |-> best_layout(mstart, StatsMstartMask),
             sr_best_layout |-> best_layout(relax, StatsRelaxMask),
             ps_best_layout |-> IF with_ps THEN best_layout(ps, IsAlpsoWecEnd) ELSE -1,
             sr_calls |-> sr_calls(SelectRowsBy(relax, IsLastStep)),
             sm_run_improvement |-> run_improvement(sm_run_end_aep, improvement_base(relax, mstart)),
             sr_run_improvement |-> run_improvement(sr_run_end_aep, improvement_base(relax, relax)),
             ps_run_improvement |-> IF with_ps THEN run_improvement(ps_run_end_aep,
                                                         improvement_base(relax, ps))
                                    ELSE <<>>]
    /\ st_pc' = "report"
    /\ UNCHANGED <<st_call, st_err, st_data>>
    /\ UNCHANGED nonStatsVars

\* the prints, and in get_statistics_case_studies the improvement box plot
StatsReport ==
    /\ st_pc = "report"
    /\ st_pc' = "done"
    /\ UNCHANGED <<st_call, st_err, st_data, st_out>>
    /\ UNCHANGED nonStatsVars

StatsNext == StatsLoad \/ StatsCompute \/ StatsReport

SpecStats == StatsInit /\ [][StatsNext]_vars

\* the run id stored in the row that holds the largest final AEP among the
\* selected rows of a table
IdOfBestRow(rows, mask) ==
    LET selected == SelectRowsBy(rows, mask)
    IN selected[np_argmax(AepColumn(selected)) + 1].id

StatsComputed == st_pc \in {"report", "done"}

\* C13: the best layout printed for each algorithm is the run id stored in the
\* same row as the largest final AEP among that algorithm's converged rows,
\* for every input table, tables with more than one row per run included.
C13_BestLayoutIsIdOfBestRow ==
    StatsComputed =>
        /\ st_out.s_best_layout = IdOfBestRow(st_data.snopt_mstart, StatsMstartMask)
        /\ st_out.sr_best_layout = IdOfBestRow(st_data.snopt_relax, StatsRelaxMask)
        /\ st_call[1] = "get_statistics_case_studies"
            => st_out.ps_best_layout = IdOfBestRow(st_data.ps_mstart, IsAlpsoWecEnd)

\* C14: in get_statistics_38_turbs the SNOPT-relaxation call statistics are
\* taken over, for each row with continuation factor 1, that row's
\* function-call column plus its sensitivity-call column.
C14_RelaxCallsAddSensitivityColumn ==
    (StatsComputed /\ st_call[1] = "get_statistics_38_turbs")
        => st_out.sr_calls
              = sr_calls_WithSensitivityColumn(SelectRowsBy(st_data.snopt_relax, IsLastStep))

\* the gains of the selected rows of a table over each row's own initial AEP
OwnStartImprovement(rows, mask) ==
    [k \in 1..Len(SelectRowsBy(rows, mask)) |->
        <<SelectRowsBy(rows, mask)[k].aep - SelectRowsBy(rows, mask)[k].orig_aep,
          SelectRowsBy(rows, mask)[k].orig_aep>>]

\* the gains of the selected rows of a table over the initial AEP in the
\* first row of the SNOPT+WEC table
CommonBaseImprovement(rows, mask) ==
    [k \in 1..Len(SelectRowsBy(rows, mask)) |->
        <<SelectRowsBy(rows, mask)[k].aep - st_data.snopt_relax[1].orig_aep,
          st_data.snopt_relax[1].orig_aep>>]

CaseStudiesComputed == StatsComputed /\ st_call[1] = "get_statistics_case_studies"

\* C26 as stated: in get_statistics_case_studies the improvement of every
\* run of every algorithm is the gain of its final AEP over that run's own
\* initial AEP, as recorded for that run in the algorithm's own result file.
C26_ImprovementOverOwnStart ==
    CaseStudiesComputed =>
        /\ st_out.sm_run_improvement = OwnStartImprovement(st_data.snopt_mstart, IsConverged)
        /\ st_out.sr_run_improvement = OwnStartImprovement(st_data.snopt_relax, IsConverged)
        /\ st_out.ps_run_improvement = OwnStartImprovement(st_data.ps_mstart, IsAlpsoWecEnd)

\* C26: in get_statistics_case_studies the improvement of every run of
\* every algorithm (SNOPT, SNOPT+WEC-D, ALPSO) is the gain of its final AEP
\* over one common base, the initial AEP in the first row of the SNOPT+WEC
\* result file.
C26_ImprovementOverFirstRelaxRow ==
    CaseStudiesComputed =>
        /\ st_out.sm_run_improvement = CommonBaseImprovement(st_data.snopt_mstart, IsConverged)
        /\ st_out.sr_run_improvement = CommonBaseImprovement(st_data.snopt_relax, IsConverged)
        /\ st_out.ps_run_improvement = CommonBaseImprovement(st_data.ps_mstart, IsAlpsoWecEnd)

C26_Witness ==
    /\ CaseStudiesComputed
    /\ Len(st_out.sm_run_improvement) = 2
    /\ Len(st_out.sr_run_improvement) = 2
    /\ Len(st_out.ps_run_improvement) = 2
    /\ st_data.snopt_relax[1].orig_aep = 40
    /\ st_data.snopt_mstart[1].orig_aep = 41
    /\ st_data.snopt_relax[Len(st_data.snopt_relax)].orig_aep = 41

\* ---------------------------------------------------------------------------
\* plot_distributions
\* ---------------------------------------------------------------------------

\* for wakemodel in ["BPA", "JENSEN"]: for nturbs, ndirs in zip([16, 38, 38, 60], [20, 12, 36, 72])
DistIterations ==
    << <<"BPA", 16, 20>>, <<"BPA", 38, 12>>, <<"BPA", 38, 36>>, <<"BPA", 60, 72>>,
       <<"JENSEN", 16, 20>>, <<"JENSEN", 38, 12>>, <<"JENSEN", 38, 36>>, <<"JENSEN", 60, 72>> >>

\* the iterations that reach `continue`
DistSkipped(study) == study[1] = "JENSEN" /\ ~(study[2] = 38 /\ study[3] = 12)

\* wakemodel == "BPA" and nturbs == 38 and ndirs == 12
DistHasAlpsoWec(study) == study[1] = "BPA" /\ study[2] = 38 /\ study[3] = 12

\* p-values of the Welch tests, in units of 1e-4
DistPValues == {5, 10, 20}

pcutoff == 10

PNan == [kind |-> "nan", value |-> 0]

PFloat(p) == [kind |-> "float", value |-> p]

\* "$< %.3f$" %(pcutoff)
PBelowCutoff == [kind |-> "str", value |-> pcutoff]

\* the p column of the table: the cutoff test of the ALPSO+WEC row reads sw_p
dist_p_column(study, sw_p, psw_p) ==
    <<PNan, IF sw_p >= pcutoff THEN PFloat(sw_p) ELSE PBelowCutoff, PNan>>
        \o (IF DistHasAlpsoWec(study)
            THEN <<IF sw_p >= pcutoff THEN PFloat(psw_p) ELSE PBelowCutoff>>
            ELSE <<>>)

dist_rows(study) ==
    <<"SNOPT", "SNOPT+WEC", "ALPSO">>
        \o (IF DistHasAlpsoWec(study) THEN <<"ALPSO+WEC">> ELSE <<>>)

itlabels_WithoutAlpsoWec(study) == <<"Start", "SNOPT", "SNOPT+WEC", "ALPSO">>

itlabels(study) ==
    IF DistHasAlpsoWec(study) THEN <<"Start", "SNOPT", "SNOPT+WEC", "ALPSO", "ALPSO+WEC">>
    ELSE <<"Start", "SNOPT", "SNOPT+WEC", "ALPSO">>

\* the impdata.append calls of one case study
dist_samples(study) ==
    LET appended == <<"wake_loss_original", "sm_wake_loss", "sw_wake_loss", "ps_wake_loss">>
                        \o (IF Len(itlabels(study)) = 5 THEN <<"psw_wake_loss">> ELSE <<>>)
    IN [k \in 1..Len(appended) |-> <<study, appended[k]>>]

\* ---- theoretical maximum AEPs
\*   a decimal constant is held exactly as <<whole, f1, f2>>: its whole part
\*   and its first and second four decimal places; a quantity is such a
\*   number times 10^shift in a unit

Dec(whole, f1, f2) == <<whole, f1, f2>>

\* the product of a decimal and a small whole number
DecTimes(x, n) ==
    <<x[1] * n + (x[2] * n + (x[3] * n) \div 10000) \div 10000,
      (x[2] * n + (x[3] * n) \div 10000) % 10000,
      (x[3] * n) % 10000>>

Quantity(digits, shift, unit) == [digits |-> digits, shift |-> shift, unit |-> unit]

\* an entry of np.zeros
ZeroQuantity == Quantity(Dec(0, 0, 0), 0, "")

\* the theoretical maximum AEP per turbine of each case study, in kWh
AeptBpa16 == Dec(5191363, 5933, 9610)

AeptBpa38Dirs12 == Dec(4994091, 7768, 4705)

AeptBpa38Dirs36 == Dec(1630166, 6160, 1323)

AeptBpa60 == Dec(6653047, 5223, 3728)

AeptJensen38 == Dec(5679986, 8279, 4700)

\* aept = <constant>*nturbs*1E3 #Wh, in the chain of plot_distributions
dist_aept(study) ==
    IF study[1] = "JENSEN" THEN Quantity(DecTimes(AeptJensen38, study[2]), 3, "Wh")
    ELSE IF study[2] = 16 THEN Quantity(DecTimes(AeptBpa16, study[2]), 3, "Wh")
    ELSE IF study[2] = 38 /\ study[3] = 12
    THEN Quantity(DecTimes(AeptBpa38Dirs12, study[2]), 3, "Wh")
    ELSE IF study[2] = 38 THEN Quantity(DecTimes(AeptBpa38Dirs36, study[2]), 3, "Wh")
    ELSE Quantity(DecTimes(AeptBpa60, study[2]), 3, "Wh")

\* (aept/100)*1E-9
one_percent_gwh(aept) == Quantity(aept.digits, aept.shift - 2 - 9, "GWh")

\* "%.3f" of an entry of onepcaept, in thousandths: an entry is either 0.0
\* or holds eight decimal places more than its digits show
format_3f(q) ==
    IF q.shift = -8 THEN (q.digits[1] + 50000) \div 100000 ELSE 1000 * q.digits[1]

\* the case studies the five annotations name, in order
DistAnnotated ==
    << <<"BPA", 16, 20>>, <<"BPA", 38, 12>>, <<"BPA", 38, 36>>, <<"BPA", 60, 72>>,
       <<"JENSEN", 38, 12>> >>

\* ax.axvline positions, times 10
DistSeparators == {45, 95, 135, 175}

NoDistTable == [rows |-> <<>>, p |-> <<>>]

NoDistPlot == [boxes |-> <<>>, lines |-> {}, annotations |-> <<>>]

NoDistPValues == [sw_p |-> 0, psw_p |-> 0]

DistInit ==
    /\ pd_args \in BOOLEAN \X BOOLEAN
    /\ pd_pc = "loop"
    /\ pd_err = NoError
    /\ pd_iter = 0
    /\ pd_pvalues = NoDistPValues
    /\ pd_df = NoDistTable
    /\ pd_impdata = <<>>
    /\ pd_labels = <<>>
    /\ pd_plot = NoDistPlot
    /\ onepcaept = [k \in 1..5 |-> ZeroQuantity]
    /\ pd_case = 0
    /\ NonDistIdle

DistRaise(type, at) ==
    /\ pd_pc' = "raised"
    /\ pd_err' = Raised(type, at)
    /\ UNCHANGED <<pd_args, pd_iter, pd_pvalues, pd_df, pd_impdata, pd_labels, pd_plot,
                   onepcaept, pd_case>>

\* one iteration of the inner loop
DistCase ==
    /\ pd_pc = "loop"
    /\ pd_iter < Len(DistIterations)
    /\ LET study == DistIterations[pd_iter + 1]
       IN \E exists \in BOOLEAN, sensitivity_calls \in BOOLEAN,
             sw_p \in DistPValues, psw_p \in DistPValues :
            IF DistSkipped(study)
            THEN /\ pd_iter' = pd_iter + 1
                 /\ UNCHANGED <<pd_args, pd_pc, pd_err, pd_pvalues, pd_df, pd_impdata,
                                pd_labels, pd_plot, onepcaept, pd_case>>
            ELSE IF ~exists
            THEN DistRaise("OSError", "loadtxt")
            ELSE IF ~pd_args[1] /\ DistHasAlpsoWec(study) /\ sensitivity_calls
            THEN DistRaise("ValueError", "psw_tscalls")
            ELSE /\ pd_pvalues' = [sw_p |-> sw_p,
                                   psw_p |-> IF DistHasAlpsoWec(study) THEN psw_p ELSE 0]
                 /\ pd_df' = IF pd_args[2]
                             THEN [rows |-> dist_rows(study),
                                   p |-> dist_p_column(study, sw_p, psw_p)]
                             ELSE pd_df
                 /\ pd_impdata' = pd_impdata \o dist_samples(study)
                 /\ pd_labels' = pd_labels \o itlabels(study)
                 /\ pd_iter' = pd_iter + 1
                 /\ IF pd_args[1]
                    THEN /\ onepcaept' = [onepcaept EXCEPT ![pd_case + 1] =
                                            one_percent_gwh(dist_aept(study))]
                         /\ pd_case' = pd_case + 1
                    ELSE UNCHANGED <<onepcaept, pd_case>>
                 /\ UNCHANGED <<pd_args, pd_pc, pd_err, pd_plot>>
    /\ UNCHANGED nonDistVars

\* the combined box plot after the loops, savefig and show
DistBoxPlot ==
    /\ pd_pc = "loop"
    /\ pd_iter = Len(DistIterations)
    /\ pd_plot' = [boxes |-> [i \in 1..Len(pd_labels) |->
                                [position |-> i, label |-> pd_labels[i], data |-> pd_impdata[i]]],
                   lines |-> DistSeparators,
                   annotations |-> [k \in 1..5 |->
                                      [group |-> DistAnnotated[k],
                                       gwh |-> format_3f(onepcaept[k])]]]
    /\ pd_pc' = "done"
    /\ UNCHANGED <<pd_args, pd_err, pd_iter, pd_pvalues, pd_df, pd_impdata, pd_labels,
                   onepcaept, pd_case>>
    /\ UNCHANGED nonDistVars

DistNext == DistCase \/ DistBoxPlot

SpecDist == DistInit /\ [][DistNext]_vars

\* the cell a row with a p-value must show for its own p-value
OwnPCell(p) == IF p < pcutoff THEN PBelowCutoff ELSE PFloat(p)

\* C15: in the LaTeX table each row that carries a Welch p-value shows
\* "< 0.001" exactly when that row's own p-value is below 0.001, and its own
\* p-value otherwise.
C15_EachRowShowsItsOwnPValue ==
    pd_df.rows # <<>> =>
        /\ pd_df.p[2] = OwnPCell(pd_pvalues.sw_p)
        /\ Len(pd_df.rows) = 4 => pd_df.p[4] = OwnPCell(pd_pvalues.psw_p)

\* the case studies in the order of the figure, with their numbers of boxes
DistGroups ==
    << <<<<"BPA", 16, 20>>, 4>>, <<<<"BPA", 38, 12>>, 5>>, <<<<"BPA", 38, 36>>, 4>>,
       <<<<"BPA", 60, 72>>, 4>>, <<<<"JENSEN", 38, 12>>, 4>> >>

RECURSIVE GroupBoxes(_, _)
GroupBoxes(groups, from) ==
    IF from > Len(groups) THEN <<>>
    ELSE [k \in 1..groups[from][2] |-> groups[from][1]] \o GroupBoxes(groups, from + 1)

BoxStudy(i) == pd_plot.boxes[i].data[1]

\* ten times the x positions half way between the last box of a group and
\* the first box of the next
GroupGaps ==
    {5 * (pd_plot.boxes[i].position + pd_plot.boxes[i + 1].position) :
        i \in {j \in 1..(Len(pd_plot.boxes) - 1) : BoxStudy(j) # BoxStudy(j + 1)}}

\* C16: the combined box plot has boxes at positions 1..21 in case-study
\* order with group sizes 4, 5, 4, 4, 4, and the four separators at 4.5, 9.5,
\* 13.5 and 17.5 fall exactly between the groups.
C16_BoxesGroupedAndSeparated ==
    pd_pc = "done" =>
        /\ Len(pd_plot.boxes) = 21
        /\ \A i \in 1..21 : pd_plot.boxes[i].position = i
        /\ [i \in 1..21 |-> BoxStudy(i)] = GroupBoxes(DistGroups, 1)
        /\ pd_plot.lines = {45, 95, 135, 175}
        /\ pd_plot.lines = GroupGaps

C16_Witness ==
    /\ pd_pc = "done"
    /\ Len(pd_plot.boxes) = 21
    /\ pd_plot.boxes[9].label = "ALPSO+WEC"
    /\ pd_plot.boxes[18].data = <<<<"JENSEN", 38, 12>>, "wake_loss_original">>

\* C27: for both values of from_convergence_history each of the five group
\* labels shows theoretical_max_AEP/100*1e-9 of the case study it names, the
\* k-th label that of the k-th case study in iteration order.
C27_LabelsShowOwnCaseOnePercent ==
    pd_pc = "done" =>
        \A k \in 1..5 :
            /\ pd_plot.annotations[k].group = DistGroups[k][1]
            /\ pd_plot.annotations[k].gwh
                  = format_3f(one_percent_gwh(dist_aept(DistGroups[k][1])))

\* ---------------------------------------------------------------------------
\* plot_farm (the later of the two definitions, which is the one bound)
\* ---------------------------------------------------------------------------

FarmLayouts == {"start", "finish", "middle", ""}

FarmTurbineCounts == {9, 16, 38, 60}

\* the turbines in a layout file
MaxFarmTurbines == 2

\* the branch of the layout chain that is taken
layout_branch_ElseStart(layout) == IF layout = "finish" THEN "finish" ELSE "start"

layout_branch(layout) ==
    IF layout = "start" THEN "start" ELSE IF layout = "finish" THEN "finish" ELSE "else"

\* data_directory + data_file
layout_file(layout, turbs) ==
    IF layout = "start" THEN <<"./image_data/layouts/", turbs, "_turbs/nTurbs", turbs,
                               "_spacing5_layout_0_start.txt">>
    ELSE <<"./image_data/layouts/", turbs, "_turbs/nTurbs", turbs, "_finish.txt">>

\* the boundary drawn for the turbine count
farm_boundary(turbs) ==
    IF turbs = 16 THEN "square" ELSE IF turbs = 38 THEN "circle"
    ELSE IF turbs = 60 THEN "polygon" ELSE "none"

NoFigure == [exists |-> FALSE, boundary |-> "none", circles |-> 0, annotations |-> 0]

FarmInit ==
    /\ pf_args \in [save_figs : BOOLEAN, show_figs : BOOLEAN, layout : FarmLayouts,
                    turb_nums : BOOLEAN, turbs : FarmTurbineCounts]
    /\ pf_pc = "layout"
    /\ pf_err = NoError
    /\ pf_read = {}
    /\ pf_fig = NoFigure
    /\ pf_output = {}
    /\ NonFarmIdle

FarmRaise(type, at) ==
    /\ pf_pc' = "raised"
    /\ pf_err' = Raised(type, at)

\* the layout chain: one np.loadtxt, or the raise of its else branch
FarmLayout ==
    /\ pf_pc = "layout"
    /\ LET branch == layout_branch(pf_args.layout)
       IN IF branch = "else"
          THEN /\ FarmRaise("ValueError", "layout")
               /\ UNCHANGED <<pf_args, pf_read, pf_fig, pf_output>>
          ELSE \E exists \in BOOLEAN :
                 IF exists
                 THEN /\ pf_read' = pf_read \cup {layout_file(branch, pf_args.turbs)}
                      /\ pf_pc' = "figure"
                      /\ UNCHANGED <<pf_args, pf_err, pf_fig, pf_output>>
                 ELSE /\ FarmRaise("OSError", "loadtxt")
                      /\ UNCHANGED <<pf_args, pf_read, pf_fig, pf_output>>
    /\ UNCHANGED nonFarmVars

\* plt.subplots, the boundary, one circle per turbine and the annotations.
\* The 60-turbine boundary imports plantenergy and shapely, which may be
\* absent.
FarmFigure ==
    /\ pf_pc = "figure"
    /\ \E nTurbines \in 1..MaxFarmTurbines, importable \in BOOLEAN :
         IF pf_args.turbs = 60 /\ ~importable
         THEN /\ FarmRaise("ImportError", "plantenergy")
              /\ pf_fig' = [NoFigure EXCEPT !.exists = TRUE]
              /\ UNCHANGED <<pf_args, pf_read, pf_output>>
         ELSE /\ pf_fig' = [exists |-> TRUE, boundary |-> farm_boundary(pf_args.turbs),
                            circles |-> nTurbines,
                            annotations |-> IF pf_args.turb_nums THEN nTurbines ELSE 0]
              /\ pf_pc' = "output"
              /\ UNCHANGED <<pf_args, pf_err, pf_read, pf_output>>
    /\ UNCHANGED nonFarmVars

\* plt.savefig and plt.show
FarmOutput ==
    /\ pf_pc = "output"
    /\ pf_output' = (IF pf_args.save_figs THEN {"savefig"} ELSE {})
                        \cup (IF pf_args.show_figs THEN {"show"} ELSE {})
    /\ pf_pc' = "done"
    /\ UNCHANGED <<pf_args, pf_err, pf_read, pf_fig>>
    /\ UNCHANGED nonFarmVars

FarmNext == FarmLayout \/ FarmFigure \/ FarmOutput

SpecFarm == FarmInit /\ [][FarmNext]_vars

\* C17: for every layout other than 'start' and 'finish', and every turbine
\* count, plot_farm raises its ValueError before any layout file is read and
\* before a figure is created or saved.
C17_UnknownLayoutRaisesBeforeReadOrFigure ==
    (pf_pc # "idle" /\ pf_args.layout \notin {"start", "finish"}) =>
        /\ pf_pc \in {"layout", "raised"}
        /\ pf_pc = "raised" => pf_err = Raised("ValueError", "layout")
        /\ pf_read = {} /\ pf_fig = NoFigure /\ pf_output = {}

C17_Witness ==
    /\ pf_pc = "raised"
    /\ pf_args.layout = "middle"
    /\ pf_args.turbs = 9
    /\ pf_err = Raised("ValueError", "layout")

\* ---------------------------------------------------------------------------
\* plot_turb_power_error_baseline
\* ---------------------------------------------------------------------------

MaxErrTurbines == 2

\* windDirections.size
nDirections == 12

\* the dimensions of sowfa_turb_powers = np.zeros([nTurbines, nDirections])
sowfa_turb_powers_ndim == 2

\* the dimensions taken by the index of the diagnostic print,
\* [sowfa_turb_powers[:, 23:26]==310, 23:26]: those of the boolean mask, which
\* has the dimensions of the array it is computed from, and one for the slice
print_index_ndim == sowfa_turb_powers_ndim + 1

\* the assignment of a vector of `rows` values to a column of nTurbines cells
ColumnAssignable(rows, nTurbines) == rows = nTurbines \/ rows = 1

TurbErrInit ==
    /\ te_args \in BOOLEAN \X BOOLEAN
    /\ te_pc = "load"
    /\ te_err = NoError
    /\ te_nTurbines = 0
    /\ te_i = 0
    /\ te_printed = FALSE
    /\ te_fig = {}
    /\ NonTurbErrIdle

TurbErrRaise(type, at) ==
    /\ te_pc' = "raised"
    /\ te_err' = Raised(type, at)

\* the two np.loadtxt calls and the allocation of sowfa_turb_powers
TurbErrLoad ==
    /\ te_pc = "load"
    /\ \E exists \in BOOLEAN, n \in 1..MaxErrTurbines :
         IF exists
         THEN /\ te_nTurbines' = n
              /\ te_pc' = "fill"
              /\ UNCHANGED te_err
         ELSE /\ TurbErrRaise("OSError", "loadtxt")
              /\ UNCHANGED te_nTurbines
    /\ UNCHANGED <<te_args, te_i, te_printed, te_fig>>
    /\ UNCHANGED nonTurbErrVars

\* one iteration of the loop over the wind directions: the SOWFA rows of the
\* direction are assigned to column i
TurbErrFill ==
    /\ te_pc = "fill"
    /\ te_i < nDirections
    /\ \E rows \in 0..MaxErrTurbines :
         IF ColumnAssignable(rows, te_nTurbines)
         THEN /\ te_i' = te_i + 1
              /\ UNCHANGED <<te_pc, te_err>>
         ELSE /\ TurbErrRaise("ValueError", "fill")
              /\ UNCHANGED te_i
    /\ UNCHANGED <<te_args, te_nTurbines, te_printed, te_fig>>
    /\ UNCHANGED nonTurbErrVars

\* print(sowfa_turb_powers[mask, 23:26]) and quit().  The statements after
\* quit() are never executed.
TurbErrPrintAndQuit ==
    /\ te_pc = "fill"
    /\ te_i = nDirections
    /\ IF print_index_ndim > sowfa_turb_powers_ndim
       THEN /\ TurbErrRaise("IndexError", "print")
            /\ UNCHANGED te_printed
       ELSE /\ te_printed' = TRUE
            /\ TurbErrRaise("SystemExit", "quit")
    /\ UNCHANGED <<te_args, te_nTurbines, te_i, te_fig>>
    /\ UNCHANGED nonTurbErrVars

TurbErrNext == TurbErrLoad \/ TurbErrFill \/ TurbErrPrintAndQuit

SpecTurbErr == TurbErrInit /\ [][TurbErrNext]_vars

\* C19: no call reaches the heatmap rendering, the save or the show; a call
\* whose input files load and fill the power table ends at quit(), after the
\* diagnostic print has been written.
C19_EndsAtQuitAfterPrint ==
    /\ te_fig = {}
    /\ (te_pc = "raised" /\ te_i = nDirections)
          => (te_err = Raised("SystemExit", "quit") /\ te_printed)

\* ---------------------------------------------------------------------------
\* analyze_fcalls_per_step
\* ---------------------------------------------------------------------------

\* the runs examined per case study (the source fixes nruns at 200)
MaxStepRuns == 2

nruns == MaxStepRuns

\* len(snopt_data)
ncases == 5

\* what the rows of one run of a results file may look like
SnoptRunKinds == {"complete", "zero_calls", "no_first_stage", "absent"}

WecRunKinds == {"complete", "zero_calls", "no_step3", "absent"}

\* the expansion factors of the relaxation steps, times 10
WecSteps == <<30, 26, 22, 18, 14, 10>>

StepRow(i, ef, ti, calls, sens) ==
    [id |-> i, ef |-> ef, ti_opt |-> ti, fcalls |-> calls, scalls |-> sens]

\* the rows of run i in a SNOPT file: a stage without and a stage with local TI
SnoptRunRows(i, kind) ==
    LET z == IF kind = "zero_calls" THEN 0 ELSE 1
        first == StepRow(i, 10, 0, 2 * z, (i + 1) * z)
        final == StepRow(i, 10, 5, z, 0)
    IN IF kind = "absent" THEN <<>>
       ELSE IF kind = "no_first_stage" THEN <<final>>
       ELSE <<first, final>>

\* the rows of run i in a SNOPT+WEC file: six relaxation steps and the
\* local-TI stage
WecRunRows(i, kind) ==
    LET z == IF kind = "zero_calls" THEN 0 ELSE 1
        steps == [k \in 1..6 |-> StepRow(i, WecSteps[k], 0, k * z, z)]
        final == StepRow(i, 10, 5, (i + 2) * z, z)
        kept == IF kind = "no_step3" THEN {1, 2, 4, 5, 6} ELSE 1..6
    IN IF kind = "absent" THEN <<>>
       ELSE SelectSeq(steps, LAMBDA row : row.ef \in {WecSteps[k] : k \in kept}) \o <<final>>

RECURSIVE StepTable(_, _, _, _, _)
StepTable(algorithm, from, kind, at_run, size) ==
    IF from >= size THEN <<>>
    ELSE LET k == IF from = at_run THEN kind ELSE "complete"
         IN (IF algorithm = "snopt" THEN SnoptRunRows(from, k) ELSE WecRunRows(from, k))
                \o StepTable(algorithm, from + 1, kind, at_run, size)

\* case_data[mask, 8] + case_data[mask, 9]: the summed calls of the selected rows
StepCalls(rows) == [k \in 1..Len(rows) |-> rows[k].fcalls + rows[k].scalls]

\* numpy addition of one-dimensional arrays of size 0 or 1: a size-0 operand
\* makes the result size 0
np_add(a, b) == IF a = <<>> \/ b = <<>> THEN <<>> ELSE <<a[1] + b[1]>>

\* a cell of sdata or wdata: a fraction <<numerator, denominator>>, or nan
NaNCell == <<>>

\* 100*part/total for arrays of size 0 or 1; 0/0 is nan
np_percent(part, total) ==
    IF part = <<>> \/ total = <<>> THEN <<>>
    ELSE IF total[1] = 0 THEN <<NaNCell>>
    ELSE << <<100 * part[1], total[1]>> >>

\* the plain-SNOPT breakdown of one run: the arrays assigned to columns 1..3
snopt_breakdown(case_data) ==
    LET fcalls_noti == StepCalls(SelectSeq(case_data, LAMBDA row : row.ti_opt = 0))
        fcalls_ti == StepCalls(SelectSeq(case_data, LAMBDA row : row.ti_opt = 5))
        fcalls_total == np_add(fcalls_noti, fcalls_ti)
    IN <<np_percent(fcalls_noti, fcalls_total), np_percent(fcalls_ti, fcalls_total),
         np_percent(fcalls_total, fcalls_total)>>

\* the SNOPT+WEC breakdown with a total that leaves out the local-TI stage
wec_breakdown_TotalWithoutTIStage(case_data) ==
    LET step(k) == StepCalls(SelectSeq(case_data, LAMBDA row : row.ef = WecSteps[k]))
        case_data_wec_1 == SelectSeq(case_data, LAMBDA row : row.ef = 10)
        fcalls_step6 == StepCalls(SelectSeq(case_data_wec_1, LAMBDA row : row.ti_opt = 0))
        fcalls_stepTI == StepCalls(SelectSeq(case_data, LAMBDA row : row.ti_opt = 5))
        fcalls_total ==
            np_add(np_add(np_add(np_add(np_add(step(1), step(2)), step(3)), step(4)),
                          step(5)), fcalls_step6)
    IN <<np_percent(step(1), fcalls_total), np_percent(step(2), fcalls_total),
         np_percent(step(3), fcalls_total), np_percent(step(4), fcalls_total),
         np_percent(step(5), fcalls_total), np_percent(fcalls_step6, fcalls_total),
         np_percent(fcalls_stepTI, fcalls_total), np_percent(fcalls_total, fcalls_total)>>

\* the SNOPT+WEC breakdown of one run: the arrays assigned to columns 1..8
wec_breakdown(case_data) ==
    LET step(k) == StepCalls(SelectSeq(case_data, LAMBDA row : row.ef = WecSteps[k]))
        case_data_wec_1 == SelectSeq(case_data, LAMBDA row : row.ef = 10)
        fcalls_step6 == StepCalls(SelectSeq(case_data_wec_1, LAMBDA row : row.ti_opt = 0))
        fcalls_stepTI == StepCalls(SelectSeq(case_data, LAMBDA row : row.ti_opt = 5))
        fcalls_total ==
            np_add(np_add(np_add(np_add(np_add(np_add(step(1), step(2)), step(3)), step(4)),
                                 step(5)), fcalls_step6), fcalls_stepTI)
    IN <<np_percent(step(1), fcalls_total), np_percent(step(2), fcalls_total),
         np_percent(step(3), fcalls_total), np_percent(step(4), fcalls_total),
         np_percent(step(5), fcalls_total), np_percent(fcalls_step6, fcalls_total),
         np_percent(fcalls_stepTI, fcalls_total), np_percent(fcalls_total, fcalls_total)>>

\* whether array[c, i, k] = value accepts the value: an array of size 1 does,
\* an array of size 0 raises ValueError
Assignable(value) == Len(value) = 1

\* wdata[c,i,k] = value inside try, with wdata[c,i,k] = np.nan in the except
TryAssign(value) == IF Assignable(value) THEN value[1] ELSE NaNCell

\* DataFrame.dropna: the rows without a nan cell
dropna(frame) == SelectSeq(frame, LAMBDA row : \A k \in 1..Len(row.cells) : row.cells[k] # NaNCell)

RECURSIVE SumFractions(_, _, _)
SumFractions(frame, column, from) ==
    IF from > Len(frame) THEN <<0, 1>>
    ELSE LET x == frame[from].cells[column]
             rest == SumFractions(frame, column, from + 1)
         IN <<x[1] * rest[2] + rest[1] * x[2], x[2] * rest[2]>>

\* DataFrame.mean of a frame without nan cells, column by column
frame_mean(frame, columns) ==
    [k \in 1..columns |->
        IF frame = <<>> THEN NaNCell
        ELSE LET total == SumFractions(frame, k, 1)
             IN <<total[1], total[2] * Len(frame)>>]

NoStepFrames == [sdf |-> <<>>, wdf |-> <<>>, msdf |-> <<>>, mwdf |-> <<>>, output |-> {}]

EmptyStepData == [c \in 1..ncases |-> <<>>]

StepsInit ==
    /\ fs_pc = "load"
    /\ fs_err = NoError
    /\ fs_data = [snopt |-> <<>>, wec |-> <<>>]
    /\ fs_c = 0
    /\ fs_i = 0
    /\ sdata = EmptyStepData
    /\ wdata = EmptyStepData
    /\ fs_frames = NoStepFrames
    /\ NonStepsIdle

StepsRaise(type, at) ==
    /\ fs_pc' = "raised"
    /\ fs_err' = Raised(type, at)

\* the ten np.loadtxt calls.  One run of one case study may deviate from the
\* complete shape in the SNOPT file, in the SNOPT+WEC file, or in both.
StepsLoad ==
    /\ fs_pc = "load"
    /\ \E exists \in BOOLEAN, snopt_kind \in SnoptRunKinds, wec_kind \in WecRunKinds,
          at_case \in 1..ncases, at_run \in 0..(nruns - 1) :
         IF exists
         THEN /\ fs_data' =
                    [snopt |-> [c \in 1..ncases |->
                                  StepTable("snopt", 0, snopt_kind,
                                            IF c = at_case THEN at_run ELSE -1, nruns)],
                     wec |-> [c \in 1..ncases |->
                                  StepTable("wec", 0, wec_kind,
                                            IF c = at_case THEN at_run ELSE -1, nruns)]]
              /\ fs_pc' = "loop"
              /\ UNCHANGED fs_err
         ELSE /\ StepsRaise("OSError", "loadtxt")
              /\ UNCHANGED fs_data
    /\ UNCHANGED <<fs_c, fs_i, sdata, wdata, fs_frames>>
    /\ UNCHANGED nonStepsVars

\* one iteration of the inner loop: the plain-SNOPT row, assigned without a
\* try, then the SNOPT+WEC row, each cell assigned inside its own try
StepsRun ==
    /\ fs_pc = "loop"
    /\ fs_c < ncases
    /\ LET c == fs_c + 1
           s == snopt_breakdown(SelectSeq(fs_data.snopt[c], LAMBDA row : row.id = fs_i))
           w == wec_breakdown(SelectSeq(fs_data.wec[c], LAMBDA row : row.id = fs_i))
       IN IF \E k \in 1..3 : ~Assignable(s[k])
          THEN /\ StepsRaise("ValueError", "sdata")
               /\ UNCHANGED <<fs_c, fs_i, sdata, wdata>>
          ELSE /\ sdata' = [sdata EXCEPT ![c] =
                              Append(@, [run |-> fs_i, cells |-> [k \in 1..3 |-> s[k][1]]])]
               /\ wdata' = [wdata EXCEPT ![c] =
                              Append(@, [run |-> fs_i, cells |-> [k \in 1..8 |-> TryAssign(w[k])]])]
               /\ IF fs_i + 1 < nruns
                  THEN fs_i' = fs_i + 1 /\ UNCHANGED fs_c
                  ELSE fs_i' = 0 /\ fs_c' = fs_c + 1
               /\ UNCHANGED <<fs_pc, fs_err>>
    /\ UNCHANGED <<fs_data, fs_frames>>
    /\ UNCHANGED nonStepsVars

\* the data frames, dropna, the means, and the two bar charts
StepsFrames ==
    /\ fs_pc = "loop"
    /\ fs_c = ncases
    /\ \E save_figs \in BOOLEAN, show_figs \in BOOLEAN :
         fs_frames' =
            [sdf |-> [c \in 1..ncases |-> dropna(sdata[c])],
             wdf |-> [c \in 1..ncases |-> dropna(wdata[c])],
             msdf |-> [c \in 1..ncases |-> frame_mean(dropna(sdata[c]), 3)],
             mwdf |-> [c \in 1..ncases |-> frame_mean(dropna(wdata[c]), 8)],
             output |-> (IF save_figs THEN {"savefig"} ELSE {})
                            \cup (IF show_figs THEN {"show"} ELSE {})]
    /\ fs_pc' = "done"
    /\ UNCHANGED <<fs_err, fs_data, fs_c, fs_i, sdata, wdata>>
    /\ UNCHANGED nonStepsVars

StepsNext == StepsLoad \/ StepsRun \/ StepsFrames

SpecSteps == StepsInit /\ [][StepsNext]_vars

\* the summed function and sensitivity calls of the rows of a run
RECURSIVE CallTotal(_)
CallTotal(rows) ==
    IF rows = <<>> THEN 0 ELSE Head(rows).fcalls + Head(rows).scalls + CallTotal(Tail(rows))

\* the runs of a table with fewer rows than stages, or with no calls at all
DeficientRuns(table, stages) ==
    {i \in 0..(nruns - 1) :
        LET rows == SelectSeq(table, LAMBDA row : row.id = i)
        IN Len(rows) < stages \/ CallTotal(rows) = 0}

FrameRuns(frame) == {frame[k].run : k \in 1..Len(frame)}

\* C20: a run whose total call count is zero or whose stage rows are missing
\* never makes the function raise; it is recorded as nan and is absent from
\* the frames the means are taken of, in the plain-SNOPT breakdown and in the
\* SNOPT+WEC breakdown alike.
C20_DeficientRunsAreDroppedWithoutRaising ==
    /\ fs_err.type \in {"none", "OSError"}
    /\ fs_pc = "done" =>
          \A c \in 1..ncases :
              /\ FrameRuns(fs_frames.sdf[c])
                    = (0..(nruns - 1)) \ DeficientRuns(fs_data.snopt[c], 2)
              /\ FrameRuns(fs_frames.wdf[c])
                    = (0..(nruns - 1)) \ DeficientRuns(fs_data.wec[c], 7)

\* the sum of two fractions
FractionPlus(x, y) ==
    IF x[2] = y[2] THEN <<x[1] + y[1], x[2]>> ELSE <<x[1] * y[2] + y[1] * x[2], x[2] * y[2]>>

\* the sum of the first `upto` cells of a row
RECURSIVE CellSum(_, _)
CellSum(cells, upto) ==
    IF upto = 0 THEN <<0, 1>> ELSE FractionPlus(CellSum(cells, upto - 1), cells[upto])

IsHundred(x) == x[1] = 100 * x[2]

WecTurbulence == {50, 75, 100, 125}

WecThrust == {500, 700, 800, 900}

WecDiameters == {40, 80, 100}

MaxRoot == 4000

SqrtFloor(x) == CHOOSE n \in 0..MaxRoot : n * n <= x /\ (n + 1) * (n + 1) > x

SqrtCeil(x) == IF SqrtFloor(x) * SqrtFloor(x) = x THEN SqrtFloor(x) ELSE SqrtFloor(x) + 1

CeilDiv(a, b) == -((-a) \div b)

\* the interval of iv / by, and of iv / 10^k, for positive divisors
IvDown(iv, by) == <<iv[1] \div by, CeilDiv(iv[2], by)>>

IvMin(s) == CHOOSE x \in s : \A y \in s : x <= y

IvMax(s) == CHOOSE x \in s : \A y \in s : y <= x

\* scale * num / den for an interval den of positive numbers
IvQuotient(num, den, scale) ==
    <<IvMin({(num[1] * scale) \div den[1], (num[1] * scale) \div den[2]}),
      IvMax({CeilDiv(num[2] * scale, den[1]), CeilDiv(num[2] * scale, den[2])})>>

\* np.sqrt(x) for x in thousandths, in thousandths
np_sqrt_milli(x) == <<SqrtFloor(x * 1000), SqrtCeil(x * 1000)>>

\* np.cos(gamma) in thousandths; the yaw angle of plot_wec_methods is 0
np_cos_milli(gamma) == IF gamma = 0 THEN 1000 ELSE 0

\* ky = kz = 0.3871 * I + 0.003678, in ten-thousandths
wake_spread(I) == IvDown(<<3871 * I + 36780, 3871 * I + 36780>>, 1000)

\* x0_func: d in metres, the other arguments in thousandths; x0 in thousandths
x0_func(d, gamma, ct, alpha_star, beta_star, I) ==
    LET root == np_sqrt_milli(1000 - ct)
        cos == np_cos_milli(gamma) \div 1000
        num == <<d * cos * (1000 + root[1]), d * cos * (1000 + root[2])>>
        inner == <<alpha_star * I + beta_star * (1000 - root[2]),
                   alpha_star * I + beta_star * (1000 - root[1])>>
        sqrt2 == np_sqrt_milli(2000)
        den == IvDown(<<sqrt2[1] * inner[1], sqrt2[2] * inner[2]>>, 100000)
    IN IvQuotient(num, den, 10000)

\* the numerator of xd_func with the root term added instead of subtracted
xd_numerator_RootAdded(sum, root_term) == <<sum[1] + root_term[1], sum[2] + root_term[2]>>

\* num = ky + kz * np.cos(gamma) - root_term
xd_numerator(sum, root_term) == <<sum[1] - root_term[2], sum[2] - root_term[1]>>

\* xd_func: x0 in thousandths, d in metres, ky and kz in ten-thousandths, ct
\* in thousandths; xd in thousandths
xd_func(x0, d, ky, kz, gamma, ct) ==
    LET cos == np_cos_milli(gamma) \div 1000
        sum == <<ky[1] + kz[1] * cos, ky[2] + kz[2] * cos>>
        square == <<sum[1] * sum[1], sum[2] * sum[2]>>
        product == IvDown(<<4 * ky[1] * kz[1] * (1000 - ct) * cos,
                            4 * ky[2] * kz[2] * (1000 - ct) * cos>>, 1000)
        root_term == <<SqrtFloor(square[1] + product[1]), SqrtCeil(square[2] + product[2])>>
        num == xd_numerator(sum, root_term)
        sqrt8 == np_sqrt_milli(8000)
        den == IvDown(<<2 * ky[1] * kz[1] * sqrt8[1], 2 * ky[2] * kz[2] * sqrt8[2]>>, 1000000)
        offset == IvQuotient(<<d * num[1], d * num[2]>>, den, 10000)
    IN <<x0[1] + offset[1], x0[2] + offset[2]>>

\* beta_star and alpha_star, in thousandths
beta_star == 154

alpha_star == 2320

\* the yaw angle
gamma == 0

WecMethodsDefaults == [I |-> 100, ct |-> 800, d |-> 80]

WecMethodsInit ==
    /\ wm_args \in BOOLEAN \X BOOLEAN
    /\ wm_in \in [I : WecTurbulence, ct : WecThrust, d : WecDiameters]
    /\ wm_pc = "x0"
    /\ wm_x0 = <<>>
    /\ wm_xd = <<>>
    /\ wm_output = {}
    /\ NonWecMethodsIdle

\* x0 = x0_func(d, gamma, ct, alpha_star, beta_star, I)
WecMethodsX0 ==
    /\ wm_pc = "x0"
    /\ wm_x0' = x0_func(wm_in.d, gamma, wm_in.ct, alpha_star, beta_star, wm_in.I)
    /\ wm_pc' = "xd"
    /\ UNCHANGED <<wm_args, wm_in, wm_xd, wm_output>>
    /\ UNCHANGED nonWecMethodsVars

\* xd = xd_func(x0, d, ky, kz, gamma, ct)
WecMethodsXd ==
    /\ wm_pc = "xd"
    /\ wm_xd' = xd_func(wm_x0, wm_in.d, wake_spread(wm_in.I), wake_spread(wm_in.I),
                        gamma, wm_in.ct)
    /\ wm_pc' = "plot"
    /\ UNCHANGED <<wm_args, wm_in, wm_x0, wm_output>>
    /\ UNCHANGED nonWecMethodsVars

\* the spread curves, the figure, savefig and show
WecMethodsPlot ==
    /\ wm_pc = "plot"
    /\ wm_output' = (IF wm_args[1] THEN {"savefig"} ELSE {})
                        \cup (IF wm_args[2] THEN {"show"} ELSE {})
    /\ wm_pc' = "done"
    /\ UNCHANGED <<wm_args, wm_in, wm_x0, wm_xd>>
    /\ UNCHANGED nonWecMethodsVars

WecMethodsNext == WecMethodsX0 \/ WecMethodsXd \/ WecMethodsPlot

SpecWecMethods == WecMethodsInit /\ [][WecMethodsNext]_vars

XdComputed == wm_pc \in {"plot", "done"} /\ wm_in = WecMethodsDefaults

\* C21 as stated: with the default inputs x0 is positive and xd is greater
\* than or equal to x0.
C21_X0PositiveXdAtLeastX0 ==
    XdComputed => (wm_x0[1] > 0 /\ wm_xd[2] >= wm_x0[1])

\* C21: with the default inputs (I = 0.1, d = 80, ct = 0.8, gamma = 0,
\* alpha_star = 2.32, beta_star = 0.154, ky = kz = 0.042388) x0 is positive
\* and xd is positive and strictly smaller than x0.
C21_X0PositiveXdBelowX0 ==
    XdComputed => (wm_x0[1] > 0 /\ wm_xd[1] > 0 /\ wm_xd[2] < wm_x0[1])

C21_Witness ==
    /\ XdComputed
    /\ wm_x0[1] <= 258149 /\ 258150 <= wm_x0[2]
    /\ wm_xd[1] <= 194461 /\ 194462 <= wm_xd[2]

\* ---------------------------------------------------------------------------
\* the theoretical maximum AEP in plot_convergence_history,
\* plot_distributions, plot_alpso_tests, plot_optimization_results and the
\* sweep functions
\* ---------------------------------------------------------------------------

\* tmax_aep = 5679986.82794711 * nturbs  # kWh
OptAeptJensen38 == Dec(5679986, 8279, 4711)

\* tmax_aep = 5904352.21200323 * nturbs  # kWh
OptAeptJensen16 == Dec(5904352, 2120, 323)

\* the value of the aept expression that ConvCaseLocals holds as text
conv_aept(text) ==
    IF text = "6653047.52233728*60*1E3" THEN Quantity(DecTimes(AeptBpa60, 60), 3, "Wh")
    ELSE IF text = "4994091.77684705*38*1E3" THEN Quantity(DecTimes(AeptBpa38Dirs12, 38), 3, "Wh")
    ELSE IF text = "1630166.61601323*38*1E3" THEN Quantity(DecTimes(AeptBpa38Dirs36, 38), 3, "Wh")
    ELSE IF text = "5191363.5933961*16*1E3" THEN Quantity(DecTimes(AeptBpa16, 16), 3, "Wh")
    ELSE IF text = "5679986.827947*38*1E3" THEN Quantity(DecTimes(AeptJensen38, 38), 3, "Wh")
    ELSE ZeroQuantity

\* aept = np.array([...])*nturbs*1E-6 of plot_alpso_tests, for the entry of
\* (nturbs, ndirs)
alpso_tests_aept(nturbs, ndirs) ==
    IF nturbs = 16 THEN Quantity(DecTimes(AeptBpa16, nturbs), -6, "GWh")
    ELSE IF nturbs = 38 /\ ndirs = 12 THEN Quantity(DecTimes(AeptBpa38Dirs12, nturbs), -6, "GWh")
    ELSE IF nturbs = 38 THEN Quantity(DecTimes(AeptBpa38Dirs36, nturbs), -6, "GWh")
    ELSE Quantity(DecTimes(AeptBpa60, nturbs), -6, "GWh")

\* the chain of plot_optimization_results with the 12-direction constant in
\* its BPA/38 branch
opt_tmax_aep_Dirs12ForBpa38(model, nturbs) ==
    IF model = "BPA" THEN
        IF nturbs = 16 THEN Quantity(DecTimes(AeptBpa16, nturbs), 0, "kWh")
        ELSE IF nturbs = 38 THEN Quantity(DecTimes(AeptBpa38Dirs12, nturbs), 0, "kWh")
        ELSE Quantity(DecTimes(AeptBpa60, nturbs), 0, "kWh")
    ELSE IF nturbs = 16 THEN Quantity(DecTimes(OptAeptJensen16, nturbs), 0, "kWh")
    ELSE Quantity(DecTimes(OptAeptJensen38, nturbs), 0, "kWh")

\* tmax_aep of plot_optimization_results, where the chain binds it
opt_tmax_aep(model, nturbs) ==
    IF model = "BPA" THEN
        IF nturbs = 16 THEN Quantity(DecTimes(AeptBpa16, nturbs), 0, "kWh")
        ELSE IF nturbs = 38 THEN Quantity(DecTimes(AeptBpa38Dirs36, nturbs), 0, "kWh")
        ELSE Quantity(DecTimes(AeptBpa60, nturbs), 0, "kWh")
    ELSE IF nturbs = 16 THEN Quantity(DecTimes(OptAeptJensen16, nturbs), 0, "kWh")
    ELSE Quantity(DecTimes(OptAeptJensen38, nturbs), 0, "kWh")

\* max_possible_aep = 189.77548752 * 1E6  # GWh -> kWh
sweep_max_possible_aep == Quantity(Dec(189, 7754, 8752), 6, "kWh")

\* the power of ten that takes a unit to kWh
UnitExponent(unit) == IF unit = "Wh" THEN -3 ELSE IF unit = "GWh" THEN 6 ELSE 0

RECURSIVE DecShift(_, _)
DecShift(x, places) == IF places <= 0 THEN x ELSE DecShift(DecTimes(x, 10), places - 1)

\* a quantity in kWh, as a decimal
in_kwh(q) == DecShift(q.digits, q.shift + UnitExponent(q.unit))

TmaxSweepFunctions == {"plot_max_wec_const_nstep_results", "plot_maxwec3_nstep_results"}

\* the calls: every (wakemodel, nturbs, ndirs) for plot_convergence_history,
\* the loop iterations of plot_distributions and plot_alpso_tests, the
\* (model, nturbs) of plot_optimization_results with the directions of the
\* files its branch loads, and the 38-turbine, 12-direction sweeps
TmaxCalls ==
    ({"plot_convergence_history"} \X ConvWakeModels \X ConvTurbineCounts \X ConvDirectionCounts)
    \cup {<<"plot_distributions">> \o DistIterations[k] : k \in 1..Len(DistIterations)}
    \cup {<<"plot_alpso_tests">> \o DistIterations[k] : k \in 1..4}
    \cup {<<"plot_optimization_results", "BPA", 9, 12>>,
          <<"plot_optimization_results", "BPA", 16, 20>>,
          <<"plot_optimization_results", "BPA", 38, 36>>,
          <<"plot_optimization_results", "BPA", 60, 72>>,
          <<"plot_optimization_results", "JENSEN", 16, 20>>,
          <<"plot_optimization_results", "JENSEN", 38, 12>>}
    \cup (TmaxSweepFunctions \X {"BPA"} \X {38} \X {12})

TmaxInit ==
    /\ tm_call \in TmaxCalls
    /\ tm_pc = "resolve"
    /\ tm_aept = <<>>
    /\ tm_kwh = <<>>
    /\ NonTmaxIdle

\* the chain or assignment that binds the constant, or leaves it unbound
TmaxResolve ==
    /\ tm_pc = "resolve"
    /\ LET function == tm_call[1]
           study == <<tm_call[2], tm_call[3], tm_call[4]>>
           bound ==
               IF function = "plot_convergence_history"
               THEN "aept" \in ConvCaseLocals(study[1], study[2], study[3]).bound
               ELSE IF function = "plot_distributions" THEN ~DistSkipped(study)
               ELSE IF function = "plot_optimization_results"
               THEN "tmax_aep" \in OptBound(study[1], study[2], FALSE)
               ELSE TRUE
       IN IF ~bound
          THEN tm_pc' = "unbound" /\ UNCHANGED tm_aept
          ELSE /\ tm_pc' = "bound"
               /\ tm_aept' =
                    IF function = "plot_convergence_history"
                    THEN conv_aept(ConvCaseLocals(study[1], study[2], study[3]).aept)
                    ELSE IF function = "plot_distributions" THEN dist_aept(study)
                    ELSE IF function = "plot_alpso_tests"
                    THEN alpso_tests_aept(study[2], study[3])
                    ELSE IF function = "plot_optimization_results"
                    THEN opt_tmax_aep(study[1], study[2])
                    ELSE sweep_max_possible_aep
    /\ UNCHANGED <<tm_call, tm_kwh>>
    /\ UNCHANGED nonTmaxVars

\* the wake losses divide an AEP in the constant's unit by it: the constant
\* in kWh
TmaxWakeLoss ==
    /\ tm_pc = "bound"
    /\ tm_kwh' = in_kwh(tm_aept)
    /\ tm_pc' = "used"
    /\ UNCHANGED <<tm_call, tm_aept>>
    /\ UNCHANGED nonTmaxVars

TmaxNext == TmaxResolve \/ TmaxWakeLoss

SpecTmax == TmaxInit /\ [][TmaxNext]_vars

\* the constant of a recognized case study as plot_convergence_history
\* binds it, in kWh
CaseConstant(study) == in_kwh(conv_aept(ConvCaseLocals(study[1], study[2], study[3]).aept))

TmaxStudy == <<tm_call[2], tm_call[3], tm_call[4]>>

TmaxUsedForRecognizedCase == tm_pc = "used" /\ TmaxStudy \in RecognizedCases

\* the distance of two decimals with equal whole parts, in units of 1e-8
DecFractionGap(x, y) ==
    IF 10000 * x[2] + x[3] >= 10000 * y[2] + y[3]
    THEN (10000 * x[2] + x[3]) - (10000 * y[2] + y[3])
    ELSE (10000 * y[2] + y[3]) - (10000 * x[2] + x[3])

\* C28 as stated: for each recognized case study every function that
\* resolves a theoretical maximum AEP for it uses the same constant once
\* units are aligned, never that of another case study.
C28_SameConstantInEveryFunction ==
    TmaxUsedForRecognizedCase =>
        /\ tm_kwh = CaseConstant(TmaxStudy)
        /\ \A other \in RecognizedCases \ {TmaxStudy} : tm_kwh # CaseConstant(other)

\* the functions whose constant for a case study was written with fewer
\* digits than in plot_convergence_history
TruncatedConstant ==
    \/ tm_call[1] \in TmaxSweepFunctions
    \/ tm_call[1] = "plot_optimization_results" /\ tm_call[2] = "JENSEN"

\* C28: for each recognized case study every function that resolves a
\* theoretical maximum AEP for it uses, once units are aligned, a constant
\* within 0.001 kWh of the one plot_convergence_history uses, and never
\* that of another case study; the constants are identical except in the
\* sweep functions (189.77548752 GWh for 4994091.77684705 kWh * 38) and in
\* the JENSEN branch of plot_optimization_results (5679986.82794711 for
\* 5679986.827947).
C28_SameConstantUpToWrittenDigits ==
    TmaxUsedForRecognizedCase =>
        /\ tm_kwh[1] = CaseConstant(TmaxStudy)[1]
        /\ DecFractionGap(tm_kwh, CaseConstant(TmaxStudy)) < 100000
        /\ (tm_kwh = CaseConstant(TmaxStudy)) <=> ~TruncatedConstant
        /\ \A other \in RecognizedCases \ {TmaxStudy} : tm_kwh[1] # CaseConstant(other)[1]

C28_Witness ==
    /\ TmaxUsedForRecognizedCase
    /\ tm_call[1] \in TmaxSweepFunctions
    /\ tm_kwh = Dec(189775487, 5200, 0)
    /\ CaseConstant(TmaxStudy) = Dec(189775487, 5201, 8790)

====
